---- MODULE Spec2Model ----
(***************************************************************************)
(* Probability engine of DUELIST SAINT: combinatorics kernel, hypergeo-    *)
(* metric functions and the constrained draw-vector enumerator of          *)
(* mathUtils (src/unnamed/part_001), and the calculateStepProb engine of   *)
(* App.tsx together with the UI edits that feed it.                        *)
(*                                                                         *)
(* JavaScript numbers are modelled as exact values: a finite number is a   *)
(* normalised fraction n/d, and the non-finite results of a division by    *)
(* zero (NaN, +Infinity, -Infinity) are separate values, so that a         *)
(* computation that leaves the reals is visible.  Floating-point rounding  *)
(* error of finite results is not modelled.                                *)
(***************************************************************************)
EXTENDS Integers, Sequences, FiniteSets, TLC

(***************************************************************************)
(* Bounds of the model.                                                    *)
(***************************************************************************)
MaxAtoms == 2
MaxCount == 2
MaxDeck == 3
MaxHand == 2
MaxThr == 2
MaxConds == 2
MaxStep == 1
MaxEdits == 2
MaxCats == 2
MaxPop == 2
MaxDraw == 2
MaxN == 3
MaxSide == 1
MaxRounds == 3
MaxTourEdits == 1
MaxSubmits == 3

(***************************************************************************)
(* JavaScript number arithmetic.                                           *)
(***************************************************************************)
Abs(i) == IF i < 0 THEN -i ELSE i

Sgn(i) == IF i < 0 THEN -1 ELSE IF i > 0 THEN 1 ELSE 0

RECURSIVE GCD(_, _)
GCD(a, b) == IF b = 0 THEN a ELSE GCD(b, a % b)

\* the finite number n/d (d # 0), in lowest terms with a positive denominator
Fin(n, d) ==
  LET g == GCD(Abs(n), Abs(d))
      s == Sgn(d)
  IN [k |-> "fin", n |-> (s * n) \div g, d |-> Abs(d) \div g]

JInt(i) == [k |-> "fin", n |-> i, d |-> 1]

NaN == [k |-> "nan", n |-> 0, d |-> 1]

Infinity == [k |-> "inf", n |-> 1, d |-> 1]

NegInfinity == [k |-> "inf", n |-> -1, d |-> 1]

JInf(s) == IF s < 0 THEN NegInfinity ELSE Infinity

IsFinite(x) == x.k = "fin"

JAdd(a, b) ==
  IF a.k = "nan" \/ b.k = "nan" THEN NaN
  ELSE IF a.k = "inf" /\ b.k = "inf" THEN (IF a.n = b.n THEN a ELSE NaN)
  ELSE IF a.k = "inf" THEN a
  ELSE IF b.k = "inf" THEN b
  ELSE LET g == GCD(a.d, b.d)
       IN Fin(a.n * (b.d \div g) + b.n * (a.d \div g), (a.d \div g) * b.d)

JNeg(a) == IF a.k = "nan" THEN NaN ELSE [a EXCEPT !.n = -a.n]

JSub(a, b) == JAdd(a, JNeg(b))

JMul(a, b) ==
  IF a.k = "nan" \/ b.k = "nan" THEN NaN
  ELSE IF a.k = "inf" \/ b.k = "inf"
       THEN (IF a.n = 0 \/ b.n = 0 THEN NaN ELSE JInf(Sgn(a.n) * Sgn(b.n)))
  ELSE LET g1 == GCD(Abs(a.n), b.d)
           g2 == GCD(Abs(b.n), a.d)
       IN Fin((a.n \div g1) * (b.n \div g2), (a.d \div g2) * (b.d \div g1))

JDiv(a, b) ==
  IF a.k = "nan" \/ b.k = "nan" THEN NaN
  ELSE IF a.k = "inf" THEN (IF b.k = "inf" THEN NaN
                            ELSE JInf(a.n * (IF b.n < 0 THEN -1 ELSE 1)))
  ELSE IF b.k = "inf" THEN JInt(0)
  ELSE IF b.n = 0 THEN (IF a.n = 0 THEN NaN ELSE JInf(Sgn(a.n)))
  ELSE JMul(a, Fin(b.d, b.n))

\* a <= b on JavaScript numbers (false as soon as one side is NaN)
JLeq(a, b) ==
  IF a.k = "nan" \/ b.k = "nan" THEN FALSE
  ELSE IF a.k = "inf" THEN (a.n < 0 \/ (b.k = "inf" /\ b.n > 0))
  ELSE IF b.k = "inf" THEN b.n > 0
  ELSE a.n * b.d <= b.n * a.d

\* a > b on JavaScript numbers (false as soon as one side is NaN)
JGt(a, b) == JLeq(b, a) /\ a # b

\* Math.max(a, b)
JMax(a, b) ==
  IF a.k = "nan" \/ b.k = "nan" THEN NaN ELSE IF JLeq(a, b) THEN b ELSE a

(***************************************************************************)
(* Sequence helpers (Array.prototype.reduce, includes, filter).            *)
(***************************************************************************)
RECURSIVE SumSeq(_)
SumSeq(s) == IF s = <<>> THEN 0 ELSE s[1] + SumSeq(Tail(s))

Includes(s, x) == \E i \in 1..Len(s) : s[i] = x

RemoveAt(s, i) == [j \in 1..(Len(s) - 1) |-> IF j < i THEN s[j] ELSE s[j + 1]]

Without(s, x) == SelectSeq(s, LAMBDA y : y # x)

Min(a, b) == IF a <= b THEN a ELSE b

(***************************************************************************)
(* Combinatorics kernel.                                                   *)
(***************************************************************************)
\* exp(logFactorial(n)): the running sum of ln(i) for i = 2..n is the log of
\* the running product; empty for n < 2
RECURSIVE Factorial(_)
Factorial(n) == IF n < 2 THEN 1 ELSE n * Factorial(n - 1)

\* Math.round of the quotient a / b of positive integers
RoundDiv(a, b) == (2 * a + b) \div (2 * b)

\* mutation: the edge cases are tested before the range
nCr_EdgeFirst(n, r) ==
  IF r = 0 \/ r = n THEN 1
  ELSE IF r < 0 \/ r > n THEN 0
  ELSE LET r2 == IF 2 * r > n THEN n - r ELSE r
       IN RoundDiv(Factorial(n), Factorial(r2) * Factorial(n - r2))

\* mutation: the larger half is folded one off
nCr_FoldOffByOne(n, r) ==
  IF r < 0 \/ r > n THEN 0
  ELSE IF r = 0 \/ r = n THEN 1
  ELSE LET r2 == IF 2 * r > n THEN n - r - 1 ELSE r
       IN RoundDiv(Factorial(n), Factorial(r2) * Factorial(n - r2))

nCr(n, r) ==
  IF r < 0 \/ r > n THEN 0
  ELSE IF r = 0 \/ r = n THEN 1
  ELSE LET r2 == IF 2 * r > n THEN n - r ELSE r
       IN RoundDiv(Factorial(n), Factorial(r2) * Factorial(n - r2))

(***************************************************************************)
(* Hypergeometric functions.                                               *)
(***************************************************************************)
\* mutation: the failures are chosen from the whole population
hypergeometricPMF_WholeDeck(N, K, n, k) ==
  LET numerator == nCr(K, k) * nCr(N, n - k)
      denominator == nCr(N, n)
  IN JDiv(JInt(numerator), JInt(denominator))

hypergeometricPMF(N, K, n, k) ==
  LET numerator == nCr(K, k) * nCr(N - K, n - k)
      denominator == nCr(N, n)
  IN JDiv(JInt(numerator), JInt(denominator))

\* the loop of hypergeometricCDF from i up to last
RECURSIVE CDFLoop(_, _, _, _, _)
CDFLoop(N, K, n, i, last) ==
  IF i > last THEN JInt(0)
  ELSE JAdd(hypergeometricPMF(N, K, n, i), CDFLoop(N, K, n, i + 1, last))

\* mutation: the loop stops one short of min(n, K)
hypergeometricCDF_Exclusive(N, K, n, k) == CDFLoop(N, K, n, k, Min(n, K) - 1)

hypergeometricCDF(N, K, n, k) == CDFLoop(N, K, n, k, Min(n, K))

RECURSIVE NumeratorFrom(_, _, _)
NumeratorFrom(populationCounts, drawnCounts, i) ==
  IF i > Len(populationCounts) THEN 1
  ELSE nCr(populationCounts[i], drawnCounts[i])
         * NumeratorFrom(populationCounts, drawnCounts, i + 1)

\* mutation: no check of the drawn total
multivariateHypergeometricPMF_NoGuard(populationCounts, drawnCounts, N, n) ==
  JDiv(JInt(NumeratorFrom(populationCounts, drawnCounts, 1)), JInt(nCr(N, n)))

multivariateHypergeometricPMF(populationCounts, drawnCounts, N, n) ==
  IF SumSeq(drawnCounts) # n THEN JInt(0)
  ELSE JDiv(JInt(NumeratorFrom(populationCounts, drawnCounts, 1)), JInt(nCr(N, n)))

(***************************************************************************)
(* Constrained draw-vector enumerator.  Arrays are 1-based here: index     *)
(* idx of the source is idx + 1 below.  thresholds is the object           *)
(* role -> {min, max}, a function whose domain is the set of its keys.     *)
(***************************************************************************)
\* number of times role occurs in one category's role list
RECURSIVE Occurrences(_, _)
Occurrences(roles, role) ==
  IF roles = <<>> THEN 0
  ELSE (IF roles[1] = role THEN 1 ELSE 0) + Occurrences(Tail(roles), role)

\* roleCounts[role] after the loop over the vector
RECURSIVE RoleCountFrom(_, _, _, _)
RoleCountFrom(vector, mapping, role, i) ==
  IF i > Len(vector) THEN 0
  ELSE vector[i] * Occurrences(mapping[i], role)
         + RoleCountFrom(vector, mapping, role, i + 1)

\* mutation: a category counts for the first role of its list only
RECURSIVE FirstRoleCountFrom(_, _, _, _)
FirstRoleCountFrom(vector, mapping, role, i) ==
  IF i > Len(vector) THEN 0
  ELSE (IF mapping[i] # <<>> /\ mapping[i][1] = role THEN vector[i] ELSE 0)
         + FirstRoleCountFrom(vector, mapping, role, i + 1)

checkThresholds_FirstRole(vector, mapping, reqs) ==
  \A role \in DOMAIN reqs :
    LET roleCount == FirstRoleCountFrom(vector, mapping, role, 1)
    IN roleCount >= reqs[role].min /\ roleCount <= reqs[role].max

\* mutation: the upper bound is exclusive
checkThresholds_StrictMax(vector, mapping, reqs) ==
  \A role \in DOMAIN reqs :
    LET roleCount == RoleCountFrom(vector, mapping, role, 1)
    IN roleCount >= reqs[role].min /\ roleCount < reqs[role].max

checkThresholds(vector, mapping, reqs) ==
  \A role \in DOMAIN reqs :
    LET roleCount == RoleCountFrom(vector, mapping, role, 1)
    IN roleCount >= reqs[role].min /\ roleCount <= reqs[role].max

RECURSIVE solve(_, _, _, _, _, _)
RECURSIVE solveLoop(_, _, _, _, _, _, _, _)
\* mutation: the last category takes the remaining draws without the fit check
solve_NoFit(populationCounts, atomToRoles, thresholds, idx, remaining, current) ==
  IF idx = Len(populationCounts)
  THEN LET assigned == [current EXCEPT ![idx] = remaining]
       IN IF checkThresholds(assigned, atomToRoles, thresholds)
          THEN <<assigned>> ELSE <<>>
  ELSE IF idx > Len(populationCounts)
       THEN <<>>
       ELSE solveLoop(populationCounts, atomToRoles, thresholds, idx, remaining,
                      current, 0, Min(remaining, populationCounts[idx]))

solve(populationCounts, atomToRoles, thresholds, idx, remaining, current) ==
  IF idx = Len(populationCounts)
  THEN IF remaining <= populationCounts[idx]
       THEN LET assigned == [current EXCEPT ![idx] = remaining]
            IN IF checkThresholds(assigned, atomToRoles, thresholds)
               THEN <<assigned>> ELSE <<>>
       ELSE <<>>
  ELSE IF idx > Len(populationCounts)
       \* no category: populationCounts[idx] is undefined, Math.min gives NaN
       \* and the loop condition i <= NaN is false
       THEN <<>>
       ELSE solveLoop(populationCounts, atomToRoles, thresholds, idx, remaining,
                      current, 0, Min(remaining, populationCounts[idx]))

solveLoop(populationCounts, atomToRoles, thresholds, idx, remaining, current, i, maxCanDraw) ==
  IF i > maxCanDraw THEN <<>>
  ELSE solve(populationCounts, atomToRoles, thresholds, idx + 1, remaining - i,
             [current EXCEPT ![idx] = i])
       \o solveLoop(populationCounts, atomToRoles, thresholds, idx, remaining,
                    current, i + 1, maxCanDraw)

\* new Array(length).fill(0)
RECURSIVE ZeroArray(_)
ZeroArray(length) == IF length = 0 THEN <<>> ELSE Append(ZeroArray(length - 1), 0)

\* new Array(length).fill(0) of JavaScript numbers
RECURSIVE ZeroRow(_)
ZeroRow(length) == IF length = 0 THEN <<>> ELSE Append(ZeroRow(length - 1), JInt(0))

\* mutation: an empty hand is refused up front
getValidDrawVectors_NoZeroDraw(populationCounts, totalDraws, targetRoles, atomToRoles, thresholds) ==
  IF totalDraws <= 0 THEN <<>>
  ELSE solve(populationCounts, atomToRoles, thresholds, 1, totalDraws,
             ZeroArray(Len(populationCounts)))

getValidDrawVectors(populationCounts, totalDraws, targetRoles, atomToRoles, thresholds) ==
  solve(populationCounts, atomToRoles, thresholds, 1, totalDraws,
        ZeroArray(Len(populationCounts)))

(***************************************************************************)
(* Application state (App.tsx useState hooks).                             *)
(*   atoms       sequence of [id, count, roles]; roles is the atom's role  *)
(*               list                                                      *)
(*   conditions  sequence of [weight, thresholds]; a threshold is          *)
(*               [role, minCount, maxCount]                                *)
(*   mulligan    [enabled, keepRole, keepMin]                              *)
(*   call        the last calculateStepProb invocation of the current      *)
(*               render (reset by every edit, since each edit re-renders)  *)
(*   steps       the timelineData result of the current render, a sequence *)
(*               of [step, draws, probs, EV]; probs holds the formatted    *)
(*               percentage of each condition, in the conditions' order    *)
(*   gv, pm      the last direct call of getValidDrawVectors, resp. of a   *)
(*               hypergeometric function                                   *)
(*   edits       number of UI edits made so far                            *)
(*   tcfg        the settings of the tournament tab that the match         *)
(*               probabilities read: [g1GoingFirst, sideboardVariance,     *)
(*               isPostSideboard, brickSensitivity]                        *)
(*   sideDeckAtoms  sequence of [count, roles]                             *)
(*   sideOuts    the recorded side-outs, a set of <<atom id, amount>>      *)
(*   tour        the tournamentAnalysis result of the current render       *)
(*   tm          the last direct evaluation of the match formula or of the *)
(*               Swiss round distribution and top cut                      *)
(*   authPage    the sign-in page (AuthPage of part_000) with the error of *)
(*               its AuthProvider: [mode, password, confirmPassword,       *)
(*               loading, rendered, resetSent, error, pending, submits,    *)
(*               held]; rendered is the loading value of the render whose  *)
(*               handleSubmit the form holds, pending the kinds of the     *)
(*               authentication calls in flight, submits the number of     *)
(*               submit events so far and held the number of those that    *)
(*               returned at the loading guard                             *)
(***************************************************************************)
VARIABLES atoms, deckSize, startHand, isGoingSecond, mulligan, conditions,
          call, steps, gv, pm, edits, tcfg, sideDeckAtoms, sideOuts, tour, tm,
          authPage

vars == <<atoms, deckSize, startHand, isGoingSecond, mulligan, conditions,
          call, steps, gv, pm, edits, tcfg, sideDeckAtoms, sideOuts, tour, tm,
          authPage>>

\* the state of the deck and game tabs
appVars == <<atoms, deckSize, startHand, isGoingSecond, mulligan, conditions, authPage>>

\* the state of the tournament tab
tourVars == <<tcfg, sideDeckAtoms, sideOuts>>

DEFAULT_ROLES == <<"Starter", "Extender", "Brick", "Defensive", "Utility">>

\* the roles the modelled edits choose among
EditRoles == {"Starter", "Brick"}

\* GAME_PRESETS[selectedTCG].drawOnTurnOneSecond: true in every preset
drawOnTurnOneSecond == TRUE

(***************************************************************************)
(* Derived values.                                                         *)
(***************************************************************************)
AtomCounts == [i \in 1..Len(atoms) |-> atoms[i].count]

AtomRoles == [i \in 1..Len(atoms) |-> atoms[i].roles]

totalAtomCount == SumSeq(AtomCounts)

remainingCards == deckSize - totalAtomCount

\* Array.from(new Set(...)): first occurrences, in insertion order
RECURSIVE Distinct(_)
Distinct(s) ==
  IF s = <<>> THEN <<>>
  ELSE <<s[1]>> \o Distinct(Without(Tail(s), s[1]))

RECURSIVE Flatten(_)
Flatten(ss) == IF ss = <<>> THEN <<>> ELSE ss[1] \o Flatten(Tail(ss))

allRoles == Distinct(DEFAULT_ROLES \o Flatten(AtomRoles))

deckTabRoleOptions ==
  LET roleList == Distinct(Flatten(AtomRoles))
  IN IF Len(roleList) > 0 THEN roleList ELSE allRoles

deckValidation ==
  IF totalAtomCount > deckSize THEN [valid |-> FALSE]
  ELSE [valid |-> TRUE]

\* startHand + (isGoingSecond && currentPreset.drawOnTurnOneSecond ? 1 : 0)
baseDraws == startHand + (IF isGoingSecond /\ drawOnTurnOneSecond THEN 1 ELSE 0)

(***************************************************************************)
(* Engine: calculateStepProb.                                              *)
(***************************************************************************)
\* thresholds[t.role] = {min, max} for each t in order: a later threshold of
\* the same role overwrites an earlier one
ThresholdObject(ths) ==
  [r \in {ths[i].role : i \in 1..Len(ths)} |->
     LET last == CHOOSE i \in 1..Len(ths) :
                   /\ ths[i].role = r
                   /\ \A j \in 1..Len(ths) : ths[j].role = r => j <= i
     IN [min |-> ths[last].minCount, max |-> ths[last].maxCount]]

\* totalProb after validVectors.forEach(v => totalProb += PMF(...))
RECURSIVE TotalProb(_, _, _, _)
TotalProb(populationCounts, vectors, N, n) ==
  IF vectors = <<>> THEN JInt(0)
  ELSE LET k == Len(vectors)
       IN JAdd(TotalProb(populationCounts, SubSeq(vectors, 1, k - 1), N, n),
               multivariateHypergeometricPMF(populationCounts, vectors[k], N, n))

\* mutation: the retry is weighted by the chance that the first hand failed
MulliganAdjust_InitFail(rawProb, probKeep) ==
  JAdd(rawProb, JMul(JSub(JInt(1), rawProb), rawProb))

\* rawProb + (1 - probKeep) * rawProb
MulliganAdjust(rawProb, probKeep) ==
  JAdd(rawProb, JMul(JSub(JInt(1), probKeep), rawProb))

NoCall ==
  [active |-> FALSE, early |-> FALSE, drawCount |-> 0, thresholdList |-> <<>>,
   N |-> 0, populationCounts |-> <<>>, atomToRoles |-> <<>>,
   thresholds |-> <<>>, validVectors |-> <<>>, rawProb |-> JInt(0),
   adjusted |-> FALSE, probKeep |-> JInt(0), value |-> JInt(0)]

calculateStepProb(drawCount, condition, forceMulligan) ==
  IF drawCount <= 0 \/ deckSize <= 0
  THEN [NoCall EXCEPT !.active = TRUE, !.early = TRUE, !.drawCount = drawCount,
                      !.thresholdList = condition.thresholds, !.N = deckSize]
  ELSE
    LET populationCounts ==
          IF remainingCards > 0 THEN Append(AtomCounts, remainingCards) ELSE AtomCounts
        atomToRoles ==
          IF remainingCards > 0 THEN Append(AtomRoles, <<>>) ELSE AtomRoles
        thresholds == ThresholdObject(condition.thresholds)
        validVectors ==
          getValidDrawVectors(populationCounts, drawCount, allRoles, atomToRoles, thresholds)
        rawProb == TotalProb(populationCounts, validVectors, deckSize, drawCount)
        isOpeningHand == drawCount = baseDraws
        adjusted == mulligan.enabled /\ isOpeningHand /\ ~forceMulligan
        keepThresholds ==
          [r \in {mulligan.keepRole} |-> [min |-> mulligan.keepMin, max |-> deckSize]]
        validKeepVectors ==
          getValidDrawVectors(populationCounts, drawCount, allRoles, atomToRoles, keepThresholds)
        probKeep ==
          IF adjusted THEN TotalProb(populationCounts, validKeepVectors, deckSize, drawCount)
          ELSE JInt(0)
    IN [active |-> TRUE, early |-> FALSE, drawCount |-> drawCount,
        thresholdList |-> condition.thresholds, N |-> deckSize,
        populationCounts |-> populationCounts, atomToRoles |-> atomToRoles,
        thresholds |-> thresholds, validVectors |-> validVectors,
        rawProb |-> rawProb, adjusted |-> adjusted, probKeep |-> probKeep,
        value |-> IF adjusted THEN MulliganAdjust(rawProb, probKeep) ELSE rawProb]

(***************************************************************************)
(* Post-sideboard deck composition.                                        *)
(***************************************************************************)
\* GAME_PRESETS[selectedTCG].drawOnTurnOneFirst of the selected YUGIOH preset
drawOnTurnOneFirst == FALSE

\* sideOuts[id] || 0
SideOut(id) ==
  IF \E e \in sideOuts : e[1] = id
  THEN (CHOOSE e \in sideOuts : e[1] = id)[2]
  ELSE 0

RECURSIVE SumSet(_)
SumSet(S) ==
  IF S = {} THEN 0
  ELSE LET e == CHOOSE x \in S : TRUE IN e[2] + SumSet(S \ {e})

totalSidedOut == SumSet(sideOuts)

totalSidedIn == SumSeq([i \in 1..Len(sideDeckAtoms) |-> sideDeckAtoms[i].count])

Max(a, b) == IF a >= b THEN a ELSE b

postSideAtoms ==
  LET modified == [i \in 1..Len(atoms) |->
                     [count |-> Max(0, atoms[i].count - SideOut(atoms[i].id)),
                      roles |-> atoms[i].roles]]
  IN SelectSeq(modified, LAMBDA a : a.count > 0)
       \o SelectSeq(sideDeckAtoms, LAMBDA a : a.count > 0)

postSideDeckSize == deckSize - totalSidedOut + totalSidedIn

postSideAllRoles ==
  Distinct(DEFAULT_ROLES \o Flatten([i \in 1..Len(postSideAtoms) |-> postSideAtoms[i].roles]))

(***************************************************************************)
(* calcProbForDeck.  maxBricks is Undefined or a number.  The result       *)
(* carries, next to the probability, the condition as the call leaves it.  *)
(***************************************************************************)
\* an omitted maxBricks argument (the callers pass 1 or nothing)
Undefined == -1

\* the dead draw penalty on the threshold object
\* mutation: the cap replaces the condition's own upper bound on bricks
BrickCap_Replace(thresholds, maxBricks) ==
  IF maxBricks = Undefined THEN thresholds
  ELSE [r \in DOMAIN thresholds \cup {"Brick"} |->
          IF r = "Brick" THEN [min |-> 0, max |-> maxBricks] ELSE thresholds[r]]

BrickCap(thresholds, maxBricks) ==
  IF maxBricks = Undefined THEN thresholds
  ELSE IF "Brick" \in DOMAIN thresholds
       THEN [r \in DOMAIN thresholds |->
               IF r = "Brick"
               THEN [min |-> thresholds[r].min, max |-> Min(thresholds[r].max, maxBricks)]
               ELSE thresholds[r]]
       ELSE [r \in DOMAIN thresholds \cup {"Brick"} |->
               IF r = "Brick" THEN [min |-> 0, max |-> maxBricks] ELSE thresholds[r]]

\* mutation: the threshold object shares the condition's threshold entries,
\* so the dead draw cap is written into the condition
calcProbForDeck_SharedThresholds(deckAtoms, totalDeck, drawCount, condition, rolesList, maxBricks) ==
  IF drawCount <= 0 \/ totalDeck <= 0
  THEN [value |-> JInt(0), early |-> TRUE, populationCounts |-> <<>>,
        thresholds |-> <<>>, condition |-> condition]
  ELSE
    LET counts == [i \in 1..Len(deckAtoms) |-> deckAtoms[i].count]
        rem == totalDeck - SumSeq(counts)
        populationCounts == IF rem > 0 THEN Append(counts, rem) ELSE counts
        roles == [i \in 1..Len(deckAtoms) |-> deckAtoms[i].roles]
        atomToRoles == IF rem > 0 THEN Append(roles, <<>>) ELSE roles
        thresholds == BrickCap(ThresholdObject(condition.thresholds), maxBricks)
        validVectors ==
          getValidDrawVectors(populationCounts, drawCount, rolesList, atomToRoles, thresholds)
    IN [value |-> TotalProb(populationCounts, validVectors, totalDeck, drawCount),
        early |-> FALSE, populationCounts |-> populationCounts,
        thresholds |-> thresholds,
        condition |->
          [condition EXCEPT !.thresholds =
             [i \in 1..Len(condition.thresholds) |->
                IF condition.thresholds[i].role = "Brick" /\ maxBricks # Undefined
                THEN [condition.thresholds[i] EXCEPT
                        !.maxCount = Min(condition.thresholds[i].maxCount, maxBricks)]
                ELSE condition.thresholds[i]]]]

calcProbForDeck(deckAtoms, totalDeck, drawCount, condition, rolesList, maxBricks) ==
  IF drawCount <= 0 \/ totalDeck <= 0
  THEN [value |-> JInt(0), early |-> TRUE, populationCounts |-> <<>>,
        thresholds |-> <<>>, condition |-> condition]
  ELSE
    LET counts == [i \in 1..Len(deckAtoms) |-> deckAtoms[i].count]
        rem == totalDeck - SumSeq(counts)
        populationCounts == IF rem > 0 THEN Append(counts, rem) ELSE counts
        roles == [i \in 1..Len(deckAtoms) |-> deckAtoms[i].roles]
        atomToRoles == IF rem > 0 THEN Append(roles, <<>>) ELSE roles
        thresholds == BrickCap(ThresholdObject(condition.thresholds), maxBricks)
        validVectors ==
          getValidDrawVectors(populationCounts, drawCount, rolesList, atomToRoles, thresholds)
    IN [value |-> TotalProb(populationCounts, validVectors, totalDeck, drawCount),
        early |-> FALSE, populationCounts |-> populationCounts,
        thresholds |-> thresholds, condition |-> condition]

(***************************************************************************)
(* tournamentAnalysis: the best-of-three match.                            *)
(***************************************************************************)
\* the result of tournamentAnalysis before it ran in this render
NoTour ==
  [active |-> FALSE, isNull |-> FALSE, g1ConditionData |-> <<>>,
   g23ConditionData |-> <<>>, P_g1 |-> JInt(0), P_g2_afterWin |-> JInt(0),
   P_g2_afterLoss |-> JInt(0), P_g3 |-> JInt(0), P_match |-> JInt(0),
   g23Weights |-> <<>>, velocityDrop |-> JInt(0), brickAlert |-> FALSE,
   brickAlertSeverity |-> "warning"]

\* Math.max(...conditions.map(c => c.weight), 1)
RECURSIVE MaxWeightFrom(_, _)
MaxWeightFrom(conds, i) ==
  IF i > Len(conds) THEN JInt(1)
  ELSE JMax(conds[i].weight, MaxWeightFrom(conds, i + 1))

maxWeight == MaxWeightFrom(conditions, 1)

\* the weight a condition keeps in a game of the match
effectiveWeight(weight, withSideboard) ==
  IF withSideboard /\ JGt(tcfg.sideboardVariance, JInt(0))
  THEN LET resilience == JDiv(weight, maxWeight)
           keepFactor == IF JLeq(Fin(8, 10), resilience) THEN Fin(90, 100)
                         ELSE JSub(JInt(1), JMul(Fin(30, 100), JSub(JInt(1), resilience)))
       IN JMul(weight, JMax(JInt(0), keepFactor))
  ELSE weight

\* the running sums of condData.forEach: <<weightedProb, totalWeight>>
RECURSIVE GameSums(_, _, _, _)
GameSums(goingFirst, condData, withSideboard, k) ==
  IF k = 0 THEN <<JInt(0), JInt(0)>>
  ELSE LET prev == GameSums(goingFirst, condData, withSideboard, k - 1)
           cd == condData[k]
           baseProb == IF goingFirst THEN cd.probFirst ELSE cd.probSecond
           w == effectiveWeight(cd.weight, withSideboard)
       IN <<JAdd(prev[1], JMul(baseProb, w)), JAdd(prev[2], w)>>

\* the effectiveWeight of each of the first k conditions in a game played
\* with the side deck
RECURSIVE g23WeightsFrom(_, _)
g23WeightsFrom(condData, k) ==
  IF k = 0 THEN <<>>
  ELSE Append(g23WeightsFrom(condData, k - 1), effectiveWeight(condData[k].weight, TRUE))

calcGameWinProb(goingFirst, condData, withSideboard) ==
  LET sums == GameSums(goingFirst, condData, withSideboard, Len(condData))
      weightedProb == sums[1]
      totalWeight == sums[2]
  IN IF JGt(totalWeight, JInt(0)) THEN JDiv(weightedProb, totalWeight) ELSE JInt(0)

\* mutation: after a lost game 1 the match is won with game 2 alone
P_match_NoDecider(P_g1, P_g2_afterWin, P_g2_afterLoss, P_g3) ==
  JAdd(JAdd(JMul(P_g1, P_g2_afterWin),
            JMul(JMul(P_g1, JSub(JInt(1), P_g2_afterWin)), P_g3)),
       JMul(JSub(JInt(1), P_g1), P_g2_afterLoss))

\* mutation: the match lost in game 1 is never won back
P_match_NoComeback(P_g1, P_g2_afterWin, P_g2_afterLoss, P_g3) ==
  JAdd(JMul(P_g1, P_g2_afterWin),
       JMul(JMul(P_g1, JSub(JInt(1), P_g2_afterWin)), P_g3))

\* Bo3 match win: P(WW) + P(WLW) + P(LWW)
P_match(P_g1, P_g2_afterWin, P_g2_afterLoss, P_g3) ==
  JAdd(JAdd(JMul(P_g1, P_g2_afterWin),
            JMul(JMul(P_g1, JSub(JInt(1), P_g2_afterWin)), P_g3)),
       JMul(JMul(JSub(JInt(1), P_g1), P_g2_afterLoss), P_g3))

\* pMatch of the earlier tournament panel (winProbs p1, p2, p3)
pMatch(p1, p2, p3) ==
  JAdd(JAdd(JMul(p1, p2), JMul(JMul(p1, JSub(JInt(1), p2)), p3)),
       JMul(JMul(JSub(JInt(1), p1), p2), p3))

(***************************************************************************)
(* Swiss round distribution and top cut.  A distribution is the sequence   *)
(* of its entries [wins, losses, prob]; entry w of the source is w + 1.    *)
(***************************************************************************)
\* Math.pow(x, k) for an integer k >= 0: 1 at k = 0 whatever x is
RECURSIVE JPow(_, _)
JPow(x, k) == IF k = 0 THEN JInt(1) ELSE JMul(x, JPow(x, k - 1))

binomProb(n, k, p) ==
  JMul(JMul(JInt(nCr(n, k)), JPow(p, k)), JPow(JSub(JInt(1), p), n - k))

\* mutation: the second to last round tires as much as the last
getStaminaPenalty_BothLate(roundNum, staminaFactor, tournamentRounds) ==
  IF ~staminaFactor THEN JInt(0)
  ELSE IF roundNum >= tournamentRounds - 1 THEN Fin(3, 100)
  ELSE JInt(0)

getStaminaPenalty(roundNum, staminaFactor, tournamentRounds) ==
  IF ~staminaFactor THEN JInt(0)
  ELSE IF roundNum >= tournamentRounds THEN Fin(3, 100)
  ELSE IF roundNum >= tournamentRounds - 1 THEN Fin(2, 100)
  ELSE JInt(0)

\* dp[r][0..w] after the inner loop of round r has passed w
RECURSIVE dpRow(_, _, _, _, _)
RECURSIVE dpRowFrom(_, _, _, _)
dpRowFrom(prev, p, r, w) ==
  IF w < 0 THEN <<>>
  ELSE Append(dpRowFrom(prev, p, r, w - 1),
         IF w > r THEN JInt(0)
         ELSE JAdd(IF w > 0 THEN JAdd(JInt(0), JMul(prev[w], p)) ELSE JInt(0),
                   JMul(prev[w + 1], JSub(JInt(1), p))))

\* dp[r], a row of tournamentRounds + 1 numbers
dpRow(r, matchProb, staminaFactor, tournamentRounds, length) ==
  IF r = 0 THEN <<JInt(1)>> \o ZeroRow(length - 1)
  ELSE dpRowFrom(dpRow(r - 1, matchProb, staminaFactor, tournamentRounds, length),
                 JMax(JInt(0), JSub(matchProb,
                        getStaminaPenalty(r, staminaFactor, tournamentRounds))),
                 r, tournamentRounds)

\* roundsDist entries 0..w
RECURSIVE roundsDistFrom(_, _, _, _)
roundsDistFrom(matchProb, staminaFactor, tournamentRounds, w) ==
  IF w < 0 THEN <<>>
  ELSE Append(roundsDistFrom(matchProb, staminaFactor, tournamentRounds, w - 1),
         [wins |-> w, losses |-> tournamentRounds - w,
          prob |-> IF staminaFactor
                   THEN dpRow(tournamentRounds, matchProb, staminaFactor,
                              tournamentRounds, tournamentRounds + 1)[w + 1]
                   ELSE binomProb(tournamentRounds, w, matchProb)])

roundsDist(matchProb, staminaFactor, tournamentRounds) ==
  roundsDistFrom(matchProb, staminaFactor, tournamentRounds, tournamentRounds)

\* topCutProb after the loop has passed the win counts from..w;
\* roundsDist[w]?.prob ?? 0 reads 0 where the distribution has no entry
RECURSIVE topCutUpTo(_, _, _)
topCutUpTo(dist, from, w) ==
  IF w < from THEN JInt(0)
  ELSE JAdd(topCutUpTo(dist, from, w - 1),
            IF w + 1 \in DOMAIN dist THEN dist[w + 1].prob ELSE JInt(0))

\* mutation: the loop starts above the threshold
topCutProb_Above(dist, topCutThreshold, tournamentRounds) ==
  topCutUpTo(dist, topCutThreshold + 1, tournamentRounds)

topCutProb(dist, topCutThreshold, tournamentRounds) ==
  topCutUpTo(dist, topCutThreshold, tournamentRounds)

drawCountFirst == startHand + (IF drawOnTurnOneFirst THEN 1 ELSE 0)

drawCountSecond == startHand + (IF drawOnTurnOneSecond THEN 1 ELSE 0)

usePostSide == tcfg.isPostSideboard /\ Len(sideDeckAtoms) > 0

\* conditions.map(...) over the first k conditions
RECURSIVE g1ConditionDataFrom(_)
g1ConditionDataFrom(k) ==
  IF k = 0 THEN <<>>
  ELSE Append(g1ConditionDataFrom(k - 1),
         [weight |-> conditions[k].weight,
          probFirst |-> calculateStepProb(drawCountFirst, conditions[k], FALSE).value,
          probSecond |-> calculateStepProb(drawCountSecond, conditions[k], FALSE).value])

g1ConditionData == g1ConditionDataFrom(Len(conditions))

\* the two calcProbForDeck calls made for a condition, in call order
g23Calls(c) ==
  LET g23Atoms == IF usePostSide THEN postSideAtoms
                  ELSE [i \in 1..Len(atoms) |->
                          [count |-> atoms[i].count, roles |-> atoms[i].roles]]
      g23DeckSize == IF usePostSide THEN postSideDeckSize ELSE deckSize
      g23Roles == IF usePostSide THEN postSideAllRoles ELSE allRoles
      deadDrawMax == IF tcfg.brickSensitivity THEN 1 ELSE Undefined
      first == calcProbForDeck(g23Atoms, g23DeckSize, drawCountFirst, c, g23Roles, deadDrawMax)
      second == calcProbForDeck(g23Atoms, g23DeckSize, drawCountSecond, first.condition,
                                g23Roles, deadDrawMax)
  IN <<first, second>>

RECURSIVE g23ConditionDataFrom(_)
g23ConditionDataFrom(k) ==
  IF k = 0 THEN <<>>
  ELSE LET calls == g23Calls(conditions[k])
       IN Append(g23ConditionDataFrom(k - 1),
            [weight |-> conditions[k].weight, probFirst |-> calls[1].value,
             probSecond |-> calls[2].value])

g23ConditionData == g23ConditionDataFrom(Len(conditions))

\* the first k conditions as the calls of the analysis leave them
RECURSIVE conditionsAfterFrom(_)
conditionsAfterFrom(k) ==
  IF k = 0 THEN <<>>
  ELSE Append(conditionsAfterFrom(k - 1), g23Calls(conditions[k])[2].condition)

conditionsAfterAnalysis == conditionsAfterFrom(Len(conditions))

\* mutation: the drop is not taken relative to game 1
velocityDrop_Absolute(g1Velocity, g23Velocity) ==
  IF JGt(g1Velocity, JInt(0)) THEN JSub(g1Velocity, g23Velocity) ELSE JInt(0)

velocityDrop(g1Velocity, g23Velocity) ==
  IF JGt(g1Velocity, JInt(0))
  THEN JDiv(JSub(g1Velocity, g23Velocity), g1Velocity)
  ELSE JInt(0)

\* each const of the useMemo body is computed once and then read by value:
\* data holds g1ConditionData and g23ConditionData, p the four game
\* probabilities, drop the velocity drop
tournamentAnalysisResult ==
  IF Len(conditions) = 0 THEN [NoTour EXCEPT !.active = TRUE, !.isNull = TRUE]
  ELSE
    CHOOSE result \in UNION UNION
      { { { [active |-> TRUE, isNull |-> FALSE, g1ConditionData |-> data[1],
             g23ConditionData |-> data[2], P_g1 |-> p[1],
             P_g2_afterWin |-> p[2], P_g2_afterLoss |-> p[3], P_g3 |-> p[4],
             P_match |-> P_match(p[1], p[2], p[3], p[4]),
             g23Weights |-> g23WeightsFrom(data[2], Len(data[2])),
             velocityDrop |-> drop,
             brickAlert |-> JGt(drop, Fin(2, 100)),
             brickAlertSeverity |-> IF JGt(drop, Fin(5, 100)) THEN "critical"
                                    ELSE "warning"] :
            \* g1Velocity is P_g1, g23Velocity the mean of the other three
            drop \in { velocityDrop(p[1],
                         JDiv(JAdd(JAdd(p[2], p[3]), p[4]), JInt(3))) } } :
          p \in { << calcGameWinProb(tcfg.g1GoingFirst, data[1], FALSE),
                     calcGameWinProb(FALSE, data[2], TRUE),
                     calcGameWinProb(TRUE, data[2], TRUE),
                     JDiv(JAdd(calcGameWinProb(TRUE, data[2], TRUE),
                               calcGameWinProb(FALSE, data[2], TRUE)), JInt(2)) >> } } :
        data \in { <<g1ConditionData, g23ConditionData>> } } : TRUE

(***************************************************************************)
(* Initial states: the constructed application scaled to the bounds, as    *)
(* left by edits that shrink the default deck: a Starter and a Brick atom  *)
(* and one filler card (the default atoms leave one card of 40 to the      *)
(* filler), the default "Playable Hand" condition, an opening hand of one  *)
(* or two cards, before or after handleTCGChange selected a preset with a  *)
(* mulligan rule, which enables the mulligan.                              *)
(***************************************************************************)
\* the useState initial values of AuthPage and of the error of AuthProvider
AuthPageMounted ==
  [mode |-> "signin", password |-> "", confirmPassword |-> "", loading |-> FALSE,
   rendered |-> FALSE, resetSent |-> FALSE, error |-> FALSE, pending |-> <<>>,
   submits |-> 0, held |-> 0]

NoGv ==
  [active |-> FALSE, populationCounts |-> <<>>, totalDraws |-> 0,
   atomToRoles |-> <<>>, thresholds |-> <<>>, vectors |-> <<>>]

NoPm ==
  [active |-> FALSE, op |-> "none", N |-> 0, K |-> 0, n |-> 0, k |-> 0,
   populationCounts |-> <<>>, drawnCounts |-> <<>>, val |-> JInt(0)]

NoTm ==
  [active |-> FALSE, op |-> "none", P_g1 |-> JInt(0), P_g2_afterWin |-> JInt(0),
   P_g2_afterLoss |-> JInt(0), P_g3 |-> JInt(0), P_match |-> JInt(0),
   tournamentRounds |-> 0, topCutThreshold |-> 0, staminaFactor |-> FALSE,
   roundsDist |-> <<>>, topCutProb |-> JInt(0)]

InitApp ==
  /\ atoms = << [id |-> 1, count |-> 1, roles |-> <<"Starter">>],
                [id |-> 2, count |-> 1, roles |-> <<"Brick">>] >>
  /\ deckSize = 3
  /\ startHand \in 1..2
  /\ isGoingSecond = FALSE
  /\ authPage = AuthPageMounted
  /\ mulligan \in [enabled : BOOLEAN, keepRole : {"Starter"}, keepMin : {1}]
  /\ conditions = << [name |-> "Playable Hand", weight |-> JInt(1),
                      thresholds |-> << [role |-> "Starter", minCount |-> 1, maxCount |-> 40],
                                        [role |-> "Brick", minCount |-> 0, maxCount |-> 0] >>] >>
  /\ call = NoCall
  /\ steps = <<>>
  /\ edits = 0
  /\ tcfg = [g1GoingFirst |-> TRUE, sideboardVariance |-> Fin(12, 100),
             isPostSideboard |-> FALSE, brickSensitivity |-> TRUE]
  /\ sideDeckAtoms = <<>>
  /\ sideOuts = {}
  /\ tour = NoTour

Init == InitApp /\ gv = NoGv /\ pm = NoPm /\ tm = NoTm

(***************************************************************************)
(* UI edits.  Every edit re-renders, which discards the memoised results.  *)
(***************************************************************************)
Edited == /\ edits < MaxEdits
          /\ edits' = edits + 1
          /\ call' = NoCall
          /\ steps' = <<>>
          /\ tour' = NoTour
          /\ UNCHANGED <<isGoingSecond, gv, pm, tm, authPage>>

\* an edit on the deck or game tab
DeckEdited == Edited /\ UNCHANGED tourVars

\* Math.random().toString(): an id no atom and no side-out entry bears
FreshId ==
  LET used == {atoms[i].id : i \in 1..Len(atoms)} \cup {e[1] : e \in sideOuts}
  IN 1 + (IF used = {} THEN 0 ELSE CHOOSE m \in used : \A u \in used : u <= m)

AddAtom ==
  /\ Len(atoms) < MaxAtoms
  /\ atoms' = Append(atoms, [id |-> FreshId, count |-> 0, roles |-> <<>>])
  /\ DeckEdited
  /\ UNCHANGED <<deckSize, startHand, mulligan, conditions>>

SetAtomCount ==
  \E i \in 1..Len(atoms), val \in 0..MaxCount :
    /\ atoms' = [atoms EXCEPT ![i].count = val]
    /\ DeckEdited
    /\ UNCHANGED <<deckSize, startHand, mulligan, conditions>>

RemoveAtom ==
  \E i \in 1..Len(atoms) :
    /\ atoms' = RemoveAt(atoms, i)
    /\ DeckEdited
    /\ UNCHANGED <<deckSize, startHand, mulligan, conditions>>

toggleRoleInAtom ==
  \E i \in 1..Len(atoms), role \in EditRoles :
    /\ atoms' = [atoms EXCEPT ![i].roles =
                   IF Includes(@, role) THEN Without(@, role) ELSE Append(@, role)]
    /\ DeckEdited
    /\ UNCHANGED <<deckSize, startHand, mulligan, conditions>>

setDeckSize ==
  \E val \in 0..MaxDeck :
    /\ deckSize' = val
    /\ DeckEdited
    /\ UNCHANGED <<atoms, startHand, mulligan, conditions>>

setStartHand ==
  \E val \in 0..MaxHand :
    /\ startHand' = val
    /\ DeckEdited
    /\ UNCHANGED <<atoms, deckSize, mulligan, conditions>>

ToggleMulligan ==
  /\ mulligan' = [mulligan EXCEPT !.enabled = ~@]
  /\ DeckEdited
  /\ UNCHANGED <<atoms, deckSize, startHand, conditions>>

SetKeepRole ==
  \E role \in EditRoles :
    /\ Includes(allRoles, role)
    /\ mulligan' = [mulligan EXCEPT !.keepRole = role]
    /\ DeckEdited
    /\ UNCHANGED <<atoms, deckSize, startHand, conditions>>

SetKeepMin ==
  \E val \in 0..MaxCount :
    /\ mulligan' = [mulligan EXCEPT !.keepMin = val]
    /\ DeckEdited
    /\ UNCHANGED <<atoms, deckSize, startHand, conditions>>

updateThreshold ==
  \E c \in 1..Len(conditions) :
    \E roleIndex \in 1..Len(conditions[c].thresholds) :
      /\ \/ \E role \in EditRoles :
              /\ Includes(deckTabRoleOptions, role)
              /\ conditions' = [conditions EXCEPT ![c].thresholds[roleIndex].role = role]
         \/ \E val \in 0..MaxCount :
              conditions' = [conditions EXCEPT ![c].thresholds[roleIndex].minCount = val]
         \/ \E val \in 0..MaxCount :
              conditions' = [conditions EXCEPT ![c].thresholds[roleIndex].maxCount = val]
      /\ DeckEdited
      /\ UNCHANGED <<atoms, deckSize, startHand, mulligan>>

removeThreshold ==
  \E c \in 1..Len(conditions) :
    \E roleIndex \in 1..Len(conditions[c].thresholds) :
      /\ conditions' = [conditions EXCEPT ![c].thresholds = RemoveAt(@, roleIndex)]
      /\ DeckEdited
      /\ UNCHANGED <<atoms, deckSize, startHand, mulligan>>

\* the "Role Constraint" button
AddThreshold ==
  \E c \in 1..Len(conditions) :
    /\ Len(conditions[c].thresholds) < MaxThr
    /\ conditions' = [conditions EXCEPT ![c].thresholds =
                        Append(@, [role |-> deckTabRoleOptions[1], minCount |-> 1,
                                   maxCount |-> deckSize])]
    /\ DeckEdited
    /\ UNCHANGED <<atoms, deckSize, startHand, mulligan>>

addCondition ==
  /\ Len(conditions) < MaxConds
  /\ conditions' = Append(conditions,
                     [name |-> "New Event", weight |-> JInt(1),
                      thresholds |-> << [role |-> allRoles[1], minCount |-> 1,
                                         maxCount |-> 40] >>])
  /\ DeckEdited
  /\ UNCHANGED <<atoms, deckSize, startHand, mulligan>>

RemoveCondition ==
  \E c \in 1..Len(conditions) :
    /\ conditions' = RemoveAt(conditions, c)
    /\ DeckEdited
    /\ UNCHANGED <<atoms, deckSize, startHand, mulligan>>

(***************************************************************************)
(* timelineData: the steps of the chart (timelineSteps), and as an action  *)
(* of its own one calculateStepProb call of the loop over the steps d and  *)
(* the conditions.                                                         *)
(***************************************************************************)
\* the last step d of the loop "for (let d = 0; d <= 10; d++)"
LastStep == 10

\* 10^digits
RECURSIVE PowerOfTen(_)
PowerOfTen(digits) == IF digits = 0 THEN 1 ELSE 10 * PowerOfTen(digits - 1)

\* Number.prototype.toFixed(digits): the decimal text of x with that many
\* fraction digits, the nearest one and of two equally near ones the larger in
\* magnitude; units is the text's value in units of 10^-digits
toFixed(x, digits) ==
  IF x.k = "nan" THEN [text |-> "NaN", units |-> 0, digits |-> digits]
  ELSE IF x.k = "inf"
       THEN [text |-> IF x.n > 0 THEN "Infinity" ELSE "-Infinity",
             units |-> 0, digits |-> digits]
  ELSE [text |-> "decimal",
        units |-> Sgn(x.n) * RoundDiv(Abs(x.n) * PowerOfTen(digits), x.d),
        digits |-> digits]

\* (prob * 100).toFixed(2) of one condition
percentText(currentDraws, condition) ==
  toFixed(JMul(calculateStepProb(currentDraws, condition, FALSE).value, JInt(100)), 2)

\* totalEV after the first k conditions
RECURSIVE totalEV(_, _)
totalEV(currentDraws, k) ==
  IF k = 0 THEN JInt(0)
  ELSE JAdd(totalEV(currentDraws, k - 1),
            JMul(calculateStepProb(currentDraws, conditions[k], FALSE).value,
                 conditions[k].weight))

\* a number stored under a key of stepData
NumberValue(i) == [text |-> "number", units |-> i, digits |-> 0]

\* stepData[key] = val: an assignment to a key the object already has
\* replaces the value
Assign(obj, key, val) ==
  [x \in DOMAIN obj \cup {key} |-> IF x = key THEN val ELSE obj[x]]

\* conditions.forEach: stepData[c.name] = (prob * 100).toFixed(2)
RECURSIVE forEachCondition(_, _, _)
forEachCondition(obj, currentDraws, k) ==
  IF k = 0 THEN obj
  ELSE Assign(forEachCondition(obj, currentDraws, k - 1), conditions[k].name,
              percentText(currentDraws, conditions[k]))

stepData(d) ==
  LET currentDraws == baseDraws + d
      initial == Assign(Assign(<<>>, "step", NumberValue(d)), "draws", NumberValue(currentDraws))
  IN Assign(forEachCondition(initial, currentDraws, Len(conditions)), "EV",
            toFixed(totalEV(currentDraws, Len(conditions)), 3))

RECURSIVE timelineSteps(_)
timelineSteps(d) ==
  IF d < 0 THEN <<>> ELSE Append(timelineSteps(d - 1), stepData(d))

timelineData ==
  \E d \in 0..MaxStep, c \in 1..Len(conditions) :
    /\ call' = calculateStepProb(baseDraws + d, conditions[c], FALSE)
    /\ UNCHANGED <<appVars, tourVars, tour, steps, gv, pm, tm, edits>>

Next ==
  \/ AddAtom
  \/ SetAtomCount
  \/ RemoveAtom
  \/ toggleRoleInAtom
  \/ setDeckSize
  \/ setStartHand
  \/ ToggleMulligan
  \/ SetKeepRole
  \/ SetKeepMin
  \/ updateThreshold
  \/ removeThreshold
  \/ AddThreshold
  \/ addCondition
  \/ RemoveCondition
  \/ timelineData

Spec == Init /\ [][Next]_vars

(***************************************************************************)
(* The tournament tab: its edits and the tournamentAnalysis of a render.   *)
(***************************************************************************)
\* an edit on the tournament tab
TourEdited == Edited /\ UNCHANGED <<atoms, deckSize, startHand, mulligan>>

\* weights the number input of a condition is set to
WeightValues == {JInt(-1), JInt(0), JInt(1), JInt(2)}

\* values the sideboard variance slider is set to
VarianceValues == {JInt(0), Fin(12, 100)}

\* roles toggled on a side deck atom
SideRoles == EditRoles \cup {"Defensive"}

\* a name typed into the name input of a condition
SetConditionName ==
  \E c \in 1..Len(conditions), v \in {"Playable Hand", "step", "draws"} :
    /\ conditions' = [conditions EXCEPT ![c].name = v]
    /\ DeckEdited
    /\ UNCHANGED <<atoms, deckSize, startHand, mulligan>>

SetWeight ==
  \E c \in 1..Len(conditions), w \in WeightValues :
    /\ conditions' = [conditions EXCEPT ![c].weight = w]
    /\ DeckEdited
    /\ UNCHANGED <<atoms, deckSize, startHand, mulligan>>

setG1GoingFirst ==
  \E b \in BOOLEAN :
    /\ tcfg' = [tcfg EXCEPT !.g1GoingFirst = b]
    /\ TourEdited
    /\ UNCHANGED <<conditions, sideDeckAtoms, sideOuts>>

setSideboardVariance ==
  \E v \in VarianceValues :
    /\ tcfg' = [tcfg EXCEPT !.sideboardVariance = v]
    /\ TourEdited
    /\ UNCHANGED <<conditions, sideDeckAtoms, sideOuts>>

setIsPostSideboard ==
  /\ tcfg' = [tcfg EXCEPT !.isPostSideboard = ~@]
  /\ TourEdited
  /\ UNCHANGED <<conditions, sideDeckAtoms, sideOuts>>

setBrickSensitivity ==
  /\ tcfg' = [tcfg EXCEPT !.brickSensitivity = ~@]
  /\ TourEdited
  /\ UNCHANGED <<conditions, sideDeckAtoms, sideOuts>>

AddSideAtom ==
  /\ Len(sideDeckAtoms) < MaxSide
  /\ sideDeckAtoms' = Append(sideDeckAtoms, [count |-> 0, roles |-> <<"Defensive">>])
  /\ TourEdited
  /\ UNCHANGED <<conditions, tcfg, sideOuts>>

SetSideAtomCount ==
  \E i \in 1..Len(sideDeckAtoms), val \in 0..MaxCount :
    /\ sideDeckAtoms' = [sideDeckAtoms EXCEPT ![i].count = val]
    /\ TourEdited
    /\ UNCHANGED <<conditions, tcfg, sideOuts>>

ToggleSideAtomRole ==
  \E i \in 1..Len(sideDeckAtoms), role \in SideRoles :
    /\ sideDeckAtoms' =
         [sideDeckAtoms EXCEPT ![i].roles =
            IF Includes(@, role) THEN Without(@, role) ELSE Append(@, role)]
    /\ TourEdited
    /\ UNCHANGED <<conditions, tcfg, sideOuts>>

RemoveSideAtom ==
  \E i \in 1..Len(sideDeckAtoms) :
    /\ sideDeckAtoms' = RemoveAt(sideDeckAtoms, i)
    /\ TourEdited
    /\ UNCHANGED <<conditions, tcfg, sideOuts>>

\* the side-out inputs are shown in post-sideboard mode only
setSideOuts ==
  /\ tcfg.isPostSideboard
  /\ \E i \in 1..Len(atoms), val \in 0..MaxCount :
       /\ sideOuts' = {e \in sideOuts : e[1] # atoms[i].id}
                        \cup {<<atoms[i].id, Min(val, atoms[i].count)>>}
       /\ TourEdited
       /\ UNCHANGED <<conditions, tcfg, sideDeckAtoms>>

tournamentAnalysis ==
  /\ tour' = tournamentAnalysisResult
  /\ conditions' = conditionsAfterAnalysis
  /\ UNCHANGED <<atoms, deckSize, startHand, isGoingSecond, mulligan, tourVars,
                 call, steps, gv, pm, tm, edits, authPage>>

\* the default conditions, "Playable Hand" and "Full Combo + Defense", on the
\* roles of the scaled deck, the second with its weight set to 2; the side
\* deck is empty or holds one entered card, and the post-sideboard switch is
\* in either position
\* the weights of the two conditions: the default 1.0 and 2.5 scaled down, or
\* the second one 0 after its weight input was cleared (parseFloat('') || 0)
InitialWeights == {<<Fin(1, 2), JInt(2)>>, <<Fin(1, 2), JInt(0)>>}

InitTour ==
  /\ atoms = << [id |-> 1, count |-> 1, roles |-> <<"Starter">>],
                [id |-> 2, count |-> 1, roles |-> <<"Brick">>] >>
  /\ deckSize = 3
  /\ startHand = 1
  /\ isGoingSecond = FALSE
  /\ authPage = AuthPageMounted
  /\ mulligan = [enabled |-> FALSE, keepRole |-> "Starter", keepMin |-> 1]
  /\ \E weights \in InitialWeights :
     conditions = << [name |-> "Playable Hand", weight |-> weights[1],
                      thresholds |-> << [role |-> "Starter", minCount |-> 1, maxCount |-> 40],
                                        [role |-> "Brick", minCount |-> 0, maxCount |-> 0] >>],
                     [name |-> "Full Combo + Defense", weight |-> weights[2],
                      thresholds |-> << [role |-> "Starter", minCount |-> 1, maxCount |-> 40],
                                        [role |-> "Defensive", minCount |-> 1, maxCount |-> 40] >>] >>
  /\ call = NoCall
  /\ steps = <<>>
  /\ edits = 0
  /\ \E post \in BOOLEAN :
       tcfg = [g1GoingFirst |-> TRUE, sideboardVariance |-> Fin(12, 100),
               isPostSideboard |-> post, brickSensitivity |-> TRUE]
  /\ sideDeckAtoms \in {<<>>, << [count |-> 1, roles |-> <<"Defensive">>] >>}
  /\ sideOuts = {}
  /\ tour = NoTour
  /\ gv = NoGv
  /\ pm = NoPm
  /\ tm = NoTm

\* the edits of the tournament tab stay within their budget
TourBudget == edits < MaxTourEdits

NextTour ==
  \/ TourBudget /\ setDeckSize
  \/ TourBudget /\ setStartHand
  \/ TourBudget /\ ToggleMulligan
  \/ TourBudget /\ RemoveCondition
  \/ TourBudget /\ updateThreshold
  \/ TourBudget /\ SetWeight
  \/ TourBudget /\ setG1GoingFirst
  \/ TourBudget /\ setSideboardVariance
  \/ TourBudget /\ setIsPostSideboard
  \/ TourBudget /\ setBrickSensitivity
  \/ TourBudget /\ AddSideAtom
  \/ TourBudget /\ SetSideAtomCount
  \/ TourBudget /\ ToggleSideAtomRole
  \/ TourBudget /\ RemoveSideAtom
  \/ TourBudget /\ setSideOuts
  \/ tournamentAnalysis

SpecTour == InitTour /\ [][NextTour]_vars

(***************************************************************************)
(* The sign-in page.  A submit event runs the handleSubmit of the render   *)
(* on display; React re-renders before the next event after a state        *)
(* change made inside an event handler, and at some later time after one   *)
(* made when a call settles.                                               *)
(***************************************************************************)
\* texts typed into the password fields
PasswordValues == {"", "secret"}

calcVars == <<atoms, deckSize, startHand, isGoingSecond, mulligan, conditions,
              tourVars, tour, call, steps, gv, pm, tm, edits>>

switchMode ==
  \E m \in {"signin", "signup", "reset"} :
    /\ authPage' = [authPage EXCEPT !.mode = m, !.error = FALSE, !.resetSent = FALSE,
                                    !.password = "", !.confirmPassword = ""]
    /\ UNCHANGED calcVars

\* the password field is shown in the sign-in and sign-up modes
setPassword ==
  \E v \in PasswordValues :
    /\ authPage.mode # "reset"
    /\ authPage' = [authPage EXCEPT !.password = v]
    /\ UNCHANGED calcVars

\* the confirmation field is shown in the sign-up mode
setConfirmPassword ==
  \E v \in PasswordValues :
    /\ authPage.mode = "signup"
    /\ authPage' = [authPage EXCEPT !.confirmPassword = v]
    /\ UNCHANGED calcVars

\* mutation: a submit is not held back while a call is pending
handleSubmit_NoGuard ==
  /\ authPage.submits < MaxSubmits
  /\ authPage' =
       IF authPage.mode = "signup" /\ authPage.password # authPage.confirmPassword
       THEN [authPage EXCEPT !.submits = @ + 1]
       ELSE [authPage EXCEPT !.submits = @ + 1, !.loading = TRUE, !.rendered = TRUE,
                             !.error = FALSE, !.pending = Append(@, authPage.mode)]
  /\ UNCHANGED calcVars

\* up to the first await: the guards, setLoading(true) and the call, which
\* starts with setError(null)
handleSubmit ==
  /\ authPage.submits < MaxSubmits
  /\ authPage' =
       IF authPage.rendered
       THEN [authPage EXCEPT !.submits = @ + 1, !.held = @ + 1]
       ELSE IF authPage.mode = "signup" /\ authPage.password # authPage.confirmPassword
       THEN [authPage EXCEPT !.submits = @ + 1]
       ELSE [authPage EXCEPT !.submits = @ + 1, !.loading = TRUE, !.rendered = TRUE,
                             !.error = FALSE, !.pending = Append(@, authPage.mode)]
  /\ UNCHANGED calcVars

\* the call resolves: setResetSent(true) after resetPassword, then finally
CallResolves ==
  \E i \in 1..Len(authPage.pending) :
    /\ authPage' = [authPage EXCEPT !.pending = RemoveAt(@, i), !.loading = FALSE,
                                    !.resetSent = IF authPage.pending[i] = "reset"
                                                  THEN TRUE ELSE @]
    /\ UNCHANGED calcVars

\* the call rejects: setError in the provider, the empty catch, then finally
CallRejects ==
  \E i \in 1..Len(authPage.pending) :
    /\ authPage' = [authPage EXCEPT !.pending = RemoveAt(@, i), !.loading = FALSE,
                                    !.error = TRUE]
    /\ UNCHANGED calcVars

\* the re-render after a call settled
RenderAuthPage ==
  /\ authPage.rendered # authPage.loading
  /\ authPage' = [authPage EXCEPT !.rendered = authPage.loading]
  /\ UNCHANGED calcVars

NextAuth ==
  \/ switchMode
  \/ setPassword
  \/ setConfirmPassword
  \/ handleSubmit
  \/ CallResolves
  \/ CallRejects
  \/ RenderAuthPage

\* the page as mounted, over the application as constructed
InitAuth == Init /\ startHand = 1 /\ ~mulligan.enabled

SpecAuth == InitAuth /\ [][NextAuth]_vars

(***************************************************************************)
(* The side deck panel: the edits of the main deck, of the side deck and   *)
(* of the side-outs, in any order.                                         *)
(***************************************************************************)
NextSide ==
  \/ SetAtomCount
  \/ RemoveAtom
  \/ setDeckSize
  \/ setIsPostSideboard
  \/ AddSideAtom
  \/ SetSideAtomCount
  \/ RemoveSideAtom
  \/ setSideOuts

SpecSide == InitTour /\ [][NextSide]_vars

(***************************************************************************)
(* The timeline chart: deck tab edits and the whole timelineData of a      *)
(* render.                                                                 *)
(***************************************************************************)
\* the whole useMemo: every step of the loop
timelineDataSteps ==
  /\ steps' = timelineSteps(LastStep)
  /\ UNCHANGED <<appVars, tourVars, tour, call, gv, pm, tm, edits>>

NextTimeline ==
  \/ SetAtomCount
  \/ setDeckSize
  \/ setStartHand
  \/ ToggleMulligan
  \/ updateThreshold
  \/ addCondition
  \/ RemoveCondition
  \/ SetWeight
  \/ SetConditionName
  \/ timelineDataSteps

SpecTimeline == Init /\ [][NextTimeline]_vars

(***************************************************************************)
(* Direct calls of the pure functions of mathUtils.  The arguments are     *)
(* drawn in the initial state; the call fills in the result.               *)
(***************************************************************************)
\* role lists of a category
RoleLists == {<<>>, <<"Starter">>, <<"Brick">>, <<"Starter", "Brick">>}

\* threshold bounds: none, any number, at least one, exactly one of a role
Bounds == UNION {{[min |-> a, max |-> a], [min |-> a, max |-> MaxPop]} : a \in 0..1}

ThresholdObjects == UNION {[D -> Bounds] : D \in SUBSET EditRoles}

GvInputs ==
  UNION {[active : {FALSE}, populationCounts : [1..m -> 0..MaxPop],
          totalDraws : 0..MaxDraw, atomToRoles : [1..m -> RoleLists],
          thresholds : ThresholdObjects, vectors : {<<>>}] : m \in 0..MaxCats}

\* the enumerator call of the documentation: three cards of role "A", one
\* brick, two draws, no brick allowed
EnumeratorExample ==
  [active |-> FALSE, populationCounts |-> <<3, 1>>, totalDraws |-> 2,
   atomToRoles |-> << <<"A">>, <<"Brick">> >>,
   thresholds |-> [role \in {"Brick"} |-> [min |-> 0, max |-> 0]], vectors |-> <<>>]

PmfInputs ==
  [active : {FALSE}, op : {"hypergeometricPMF", "hypergeometricCDF"}, N : 0..MaxN,
   K : 0..MaxN, n : 0..MaxN, k : -1..MaxN, populationCounts : {<<>>},
   drawnCounts : {<<>>}, val : {JInt(0)}]

\* nCr(n, k) on integers of either sign
NcrInputs ==
  [active : {FALSE}, op : {"nCr"}, N : {0}, K : {0}, n : -MaxN..MaxN, k : -MaxN..MaxN,
   populationCounts : {<<>>}, drawnCounts : {<<>>}, val : {JInt(0)}]

MvInputs ==
  UNION {[active : {FALSE}, op : {"multivariateHypergeometricPMF"}, N : 0..MaxN,
          K : {0}, n : 0..MaxN, k : {0}, populationCounts : [1..m -> 0..MaxPop],
          drawnCounts : [1..m -> 0..MaxPop], val : {JInt(0)}] : m \in 0..MaxCats}

\* single-game and match win probabilities handed to the match formula
Probabilities == {Fin(i, 5) : i \in 0..5}

\* P_match as tournamentAnalysis hands it on: a probability, or the NaN it
\* computes for a deck smaller than the hand drawn from it
MatchProbabilities == Probabilities \cup {NaN}

MatchInputs ==
  [active : {FALSE}, op : {"P_match"}, P_g1 : Probabilities,
   P_g2_afterWin : Probabilities, P_g2_afterLoss : Probabilities,
   P_g3 : Probabilities, P_match : {JInt(0)}, tournamentRounds : {0},
   topCutThreshold : {0}, staminaFactor : {FALSE}, roundsDist : {<<>>},
   topCutProb : {JInt(0)}]

\* winProbs {p1, p2, p3} of the earlier tournament panel, in the fields of games 1 to 3
PMatchInputs ==
  [active : {FALSE}, op : {"pMatch"}, P_g1 : Probabilities,
   P_g2_afterWin : Probabilities, P_g2_afterLoss : {JInt(0)},
   P_g3 : Probabilities, P_match : {JInt(0)}, tournamentRounds : {0},
   topCutThreshold : {0}, staminaFactor : {FALSE}, roundsDist : {<<>>},
   topCutProb : {JInt(0)}]

RoundsInputs ==
  [active : {FALSE}, op : {"roundsDist"}, P_g1 : {JInt(0)},
   P_g2_afterWin : {JInt(0)}, P_g2_afterLoss : {JInt(0)}, P_g3 : {JInt(0)},
   P_match : MatchProbabilities, tournamentRounds : 0..MaxRounds,
   topCutThreshold : 0..(MaxRounds + 1), staminaFactor : BOOLEAN,
   roundsDist : {<<>>}, topCutProb : {JInt(0)}]

InitMath ==
  /\ InitApp
  /\ ~mulligan.enabled
  /\ startHand = 1
  /\ \/ gv \in GvInputs \cup {EnumeratorExample} /\ pm = NoPm /\ tm = NoTm
     \/ gv = NoGv /\ pm \in PmfInputs \cup MvInputs \cup NcrInputs /\ tm = NoTm
     \/ gv = NoGv /\ pm = NoPm /\ tm \in MatchInputs \cup PMatchInputs \cup RoundsInputs

CallGetValidDrawVectors ==
  /\ ~gv.active /\ pm.op = "none" /\ tm.op = "none"
  /\ gv' = [gv EXCEPT !.active = TRUE,
                      !.vectors = getValidDrawVectors(gv.populationCounts, gv.totalDraws,
                                    DEFAULT_ROLES, gv.atomToRoles, gv.thresholds)]
  /\ UNCHANGED <<appVars, tourVars, tour, call, steps, pm, tm, edits>>

CallHypergeometricPMF ==
  /\ ~pm.active /\ pm.op = "hypergeometricPMF"
  /\ pm' = [pm EXCEPT !.active = TRUE,
                      !.val = hypergeometricPMF(pm.N, pm.K, pm.n, pm.k)]
  /\ UNCHANGED <<appVars, tourVars, tour, call, steps, gv, tm, edits>>

CallMultivariateHypergeometricPMF ==
  /\ ~pm.active /\ pm.op = "multivariateHypergeometricPMF"
  /\ pm' = [pm EXCEPT !.active = TRUE,
                      !.val = multivariateHypergeometricPMF(pm.populationCounts,
                                pm.drawnCounts, pm.N, pm.n)]
  /\ UNCHANGED <<appVars, tourVars, tour, call, steps, gv, tm, edits>>

CallNCr ==
  /\ ~pm.active /\ pm.op = "nCr"
  /\ pm' = [pm EXCEPT !.active = TRUE, !.val = JInt(nCr(pm.n, pm.k))]
  /\ UNCHANGED <<appVars, tourVars, tour, call, steps, gv, tm, edits>>

CallHypergeometricCDF ==
  /\ ~pm.active /\ pm.op = "hypergeometricCDF"
  /\ pm' = [pm EXCEPT !.active = TRUE,
                      !.val = hypergeometricCDF(pm.N, pm.K, pm.n, pm.k)]
  /\ UNCHANGED <<appVars, tourVars, tour, call, steps, gv, tm, edits>>

CallP_match ==
  /\ ~tm.active /\ tm.op = "P_match"
  /\ tm' = [tm EXCEPT !.active = TRUE,
                      !.P_match = P_match(tm.P_g1, tm.P_g2_afterWin,
                                          tm.P_g2_afterLoss, tm.P_g3)]
  /\ UNCHANGED <<appVars, tourVars, tour, call, steps, gv, pm, edits>>

CallPMatch ==
  /\ ~tm.active /\ tm.op = "pMatch"
  /\ tm' = [tm EXCEPT !.active = TRUE,
                      !.P_match = pMatch(tm.P_g1, tm.P_g2_afterWin, tm.P_g3)]
  /\ UNCHANGED <<appVars, tourVars, tour, call, steps, gv, pm, edits>>

\* the round distribution and the top cut of one analysis
CallRoundsDist ==
  /\ ~tm.active /\ tm.op = "roundsDist"
  /\ LET dist == roundsDist(tm.P_match, tm.staminaFactor, tm.tournamentRounds)
     IN tm' = [tm EXCEPT !.active = TRUE, !.roundsDist = dist,
                         !.topCutProb = topCutProb(dist, tm.topCutThreshold,
                                                   tm.tournamentRounds)]
  /\ UNCHANGED <<appVars, tourVars, tour, call, steps, gv, pm, edits>>

NextMath ==
  \/ CallP_match
  \/ CallPMatch
  \/ CallRoundsDist
  \/ CallGetValidDrawVectors
  \/ CallHypergeometricPMF
  \/ CallMultivariateHypergeometricPMF
  \/ CallNCr
  \/ CallHypergeometricCDF

SpecMath == InitMath /\ [][NextMath]_vars

(***************************************************************************)
(* Reference notions used by the properties.                               *)
(***************************************************************************)
\* all hands: one count per category within its population, totalDraws in all
Hands(populationCounts, totalDraws) ==
  {v \in [1..Len(populationCounts) -> 0..totalDraws] :
     /\ \A i \in 1..Len(populationCounts) : v[i] <= populationCounts[i]
     /\ SumSeq(v) = totalDraws}

\* number of drawn cards bearing the role
RECURSIVE RoleSum(_, _, _)
RoleSum(v, roleLists, role) ==
  IF v = <<>> THEN 0
  ELSE (IF Includes(roleLists[1], role) THEN v[1] ELSE 0)
       + RoleSum(Tail(v), Tail(roleLists), role)

InRange(x, lo, hi) == lo <= x /\ x <= hi

Elements(s) == {s[i] : i \in 1..Len(s)}

NoRepeats(s) == \A i, j \in 1..Len(s) : s[i] = s[j] => i = j

\* the hands that satisfy every threshold of a threshold object
ValidHands(populationCounts, totalDraws, roleLists, thresholds) ==
  {v \in Hands(populationCounts, totalDraws) :
     \A role \in DOMAIN thresholds :
       InRange(RoleSum(v, roleLists, role), thresholds[role].min, thresholds[role].max)}

ZeroVector(m) == [i \in 1..m |-> 0]

(***************************************************************************)
(* C1.  getValidDrawVectors returns exactly the draw vectors v with        *)
(* 0 <= v[i] <= populationCounts[i], sum(v) = totalDraws and every         *)
(* thresholded role's sum within [min, max], each exactly once.            *)
(* C1_AnyPopulation states it for any population counts; C1_Enumerates     *)
(* for population counts with at least one category.                       *)
(***************************************************************************)
EnumeratesExactly ==
  /\ NoRepeats(gv.vectors)
  /\ Elements(gv.vectors)
       = ValidHands(gv.populationCounts, gv.totalDraws, gv.atomToRoles, gv.thresholds)

C7_ZeroDenominatorGivesZero ==
  pm.active => /\ IsFinite(pm.val)
               /\ nCr(pm.N, pm.n) = 0 => pm.val = JInt(0)

(***************************************************************************)
(* C9.  multivariateHypergeometricPMF returns 0 whenever sum(drawnCounts)  *)
(* differs from n.                                                         *)
(***************************************************************************)
C9_SumMismatchGivesZero ==
  (pm.active /\ pm.op = "multivariateHypergeometricPMF"
     /\ SumSeq(pm.drawnCounts) # pm.n) => pm.val = JInt(0)

\* a mismatching call whose quotient would not be 0
C9_Witness ==
  /\ pm.active
  /\ pm.op = "multivariateHypergeometricPMF"
  /\ SumSeq(pm.drawnCounts) # pm.n
  /\ NumeratorFrom(pm.populationCounts, pm.drawnCounts, 1) > 0
  /\ nCr(pm.N, pm.n) > 0
  /\ pm.val = JInt(0)

(***************************************************************************)
(* C10.  For totalDraws = 0 the all-zero vector is the only candidate: the *)
(* result is exactly [all-zero vector] when every threshold has min = 0,   *)
(* and the empty list when some threshold has min >= 1.                    *)
(* C10_AnyPopulation states it for any population counts;                  *)
(* C10_ZeroDraws for population counts with at least one category.         *)
(***************************************************************************)
ZeroDrawResult ==
  IF \A role \in DOMAIN gv.thresholds : gv.thresholds[role].min = 0
  THEN gv.vectors = << ZeroVector(Len(gv.populationCounts)) >>
  ELSE gv.vectors = <<>>

DeckCounts == IF remainingCards > 0 THEN Append(AtomCounts, remainingCards) ELSE AtomCounts

DeckRoleLists == IF remainingCards > 0 THEN Append(AtomRoles, <<>>) ELSE AtomRoles

\* sum of the multivariate hypergeometric PMF (population N) over a set of hands
RECURSIVE PMFSum(_, _, _, _)
PMFSum(populationCounts, hands, N, n) ==
  IF hands = {} THEN JInt(0)
  ELSE LET v == CHOOSE h \in hands : TRUE
           numerator == NumeratorFrom(populationCounts, v, 1)
       IN JAdd(JDiv(JInt(numerator), JInt(nCr(N, n))),
               PMFSum(populationCounts, hands \ {v}, N, n))

\* a hand satisfies a list of thresholds iff it satisfies each of them
SatisfiesAll(v, roleLists, thresholdList) ==
  \A i \in 1..Len(thresholdList) :
    InRange(RoleSum(v, roleLists, thresholdList[i].role),
            thresholdList[i].minCount, thresholdList[i].maxCount)

\* probability that a hand of drawCount cards satisfies all listed thresholds
EventProbability(drawCount, thresholdList) ==
  PMFSum(DeckCounts,
         {v \in Hands(DeckCounts, drawCount) : SatisfiesAll(v, DeckRoleLists, thresholdList)},
         deckSize, drawCount)

(***************************************************************************)
(* C2.  Without mulligan, the event probability computed by                *)
(* calculateStepProb for a draw count >= 0 equals the sum, over all draw   *)
(* vectors that satisfy the condition's thresholds, of the multivariate    *)
(* hypergeometric PMF.                                                     *)
(***************************************************************************)
C2_ExactEventProbability ==
  (call.active /\ ~call.adjusted /\ call.drawCount >= 0)
    => call.value = EventProbability(call.drawCount, call.thresholdList)

(***************************************************************************)
(* C3.  Whenever a probability is computed, the category counts handed to  *)
(* the enumerator and the PMF sum to exactly the deck size N used as the   *)
(* PMF population, and a deck whose atoms exceed the deck size is flagged  *)
(* invalid rather than used in a calculation.                              *)
(***************************************************************************)
C3_CountsSumToDeckSize ==
  (call.active /\ ~call.early)
    => /\ deckValidation.valid
       /\ SumSeq(call.populationCounts) = call.N
       /\ \A i \in 1..Len(call.populationCounts) : call.populationCounts[i] >= 0

(***************************************************************************)
(* C4.  The event probability returned for any deck, condition, draw count *)
(* and mulligan configuration is a real number in [0, 1].                  *)
(***************************************************************************)
C4_ProbabilityInUnitInterval ==
  call.active => /\ IsFinite(call.value)
                 /\ JLeq(JInt(0), call.value)
                 /\ JLeq(call.value, JInt(1))

C6_AllThresholdsHold ==
  (call.active /\ ~call.early) =>
    \A v \in Hands(call.populationCounts, call.drawCount) :
      (v \in Elements(call.validVectors))
        <=> SatisfiesAll(v, call.atomToRoles, call.thresholdList)

(***************************************************************************)
(* C8.  When the requested draw count exceeds the total population, the    *)
(* enumeration is empty and the event probability is 0 for every           *)
(* condition, with or without mulligan.                                    *)
(***************************************************************************)
C8_OverlargeDrawGivesZero ==
  (call.active /\ call.drawCount > SumSeq(DeckCounts))
    => /\ call.validVectors = <<>>
       /\ call.value = JInt(0)

\* an opening hand larger than the deck, computed with the mulligan adjustment
C8_Witness ==
  /\ call.active
  /\ ~call.early
  /\ call.adjusted
  /\ call.drawCount > SumSeq(call.populationCounts)
  /\ call.value = JInt(0)

(***************************************************************************)
(* C11.  nCr(n, r) is 0 whenever r < 0 or r > n, also for negative n, and  *)
(* 1 whenever r = 0 or r = n with n >= 0; every call returns a number.     *)
(***************************************************************************)
C11_EdgeValues ==
  (pm.active /\ pm.op = "nCr") =>
     /\ IsFinite(pm.val)
     /\ (pm.k < 0 \/ pm.k > pm.n) => pm.val = JInt(0)
     /\ (pm.n >= 0 /\ (pm.k = 0 \/ pm.k = pm.n)) => pm.val = JInt(1)

\* nCr(n, 0) with negative n has returned 0
C11_Witness == pm.active /\ pm.op = "nCr" /\ pm.n < 0 /\ pm.k = 0 /\ pm.val = JInt(0)

(***************************************************************************)
(* C13.  nCr(n, r) = nCr(n, n - r) for every n >= 0 and 0 <= r <= n.       *)
(***************************************************************************)
C13_Symmetry ==
  (pm.active /\ pm.op = "nCr" /\ 0 <= pm.k /\ pm.k <= pm.n) =>
     pm.val = JInt(nCr(pm.n, pm.n - pm.k))

\* a call in the folded upper half with a result above 1
C13_Witness ==
  /\ pm.active /\ pm.op = "nCr"
  /\ 0 < pm.k /\ pm.k < pm.n /\ 2 * pm.k > pm.n
  /\ ~JLeq(pm.val, JInt(1))

\* sum of the PMF over k = i..n
RECURSIVE PMFTotal(_, _, _, _)
PMFTotal(N, K, n, i) ==
  IF i > n THEN JInt(0)
  ELSE JAdd(hypergeometricPMF(N, K, n, i), PMFTotal(N, K, n, i + 1))

(***************************************************************************)
(* C14.  For N >= n >= 0 and 0 <= K <= N the hypergeometric PMF sums to 1  *)
(* over k = 0..n, and hypergeometricCDF(N, K, n, 0) = 1.                   *)
(***************************************************************************)
C14_SumsToOne ==
  (pm.active /\ pm.op = "hypergeometricCDF" /\ pm.k = 0 /\ pm.n <= pm.N /\ pm.K <= pm.N) =>
     /\ PMFTotal(pm.N, pm.K, pm.n, 0) = JInt(1)
     /\ pm.val = JInt(1)

\* a CDF call from 0 whose last term, at k = min(n, K), is not zero
C14_Witness ==
  /\ pm.active /\ pm.op = "hypergeometricCDF" /\ pm.k = 0
  /\ 1 <= pm.n /\ pm.n <= pm.N /\ 1 <= pm.K /\ pm.K < pm.N
  /\ pm.val = JInt(1)

(***************************************************************************)
(* C15.  With one explicit category of K cards and the filler,             *)
(* multivariateHypergeometricPMF([K, N-K], [k, n-k], N, n) equals          *)
(* hypergeometricPMF(N, K, n, k) for every 0 <= n <= N and every k.        *)
(***************************************************************************)
C15_OneCategoryDegenerates ==
  (pm.active /\ pm.op = "hypergeometricPMF" /\ pm.n <= pm.N /\ pm.K <= pm.N) =>
     pm.val = multivariateHypergeometricPMF(<<pm.K, pm.N - pm.K>>,
                <<pm.k, pm.n - pm.k>>, pm.N, pm.n)

\* a call with a probability strictly between 0 and 1
C15_Witness ==
  /\ pm.active /\ pm.op = "hypergeometricPMF" /\ pm.n <= pm.N /\ pm.K <= pm.N
  /\ pm.val # JInt(0) /\ pm.val # JInt(1) /\ IsFinite(pm.val)

(***************************************************************************)
(* C16.  The match win probability of an analysis is                       *)
(* P_g1*P_g2_afterWin + P_g1*(1-P_g2_afterWin)*P_g3                        *)
(* + (1-P_g1)*P_g2_afterLoss*P_g3, where P_g1 is the game probability of   *)
(* the main deck at the chosen seat without the sideboard adjustment,      *)
(* P_g2_afterWin the adjusted going-second probability, P_g2_afterLoss the *)
(* adjusted going-first probability and P_g3 the average of the two.       *)
(***************************************************************************)
C16_MatchFormula ==
  (tour.active /\ ~tour.isNull) =>
    LET second == calcGameWinProb(FALSE, tour.g23ConditionData, TRUE)
        first == calcGameWinProb(TRUE, tour.g23ConditionData, TRUE)
    IN /\ tour.P_g1 = calcGameWinProb(tcfg.g1GoingFirst, tour.g1ConditionData, FALSE)
       /\ tour.P_g2_afterWin = second
       /\ tour.P_g2_afterLoss = first
       /\ tour.P_g3 = JDiv(JAdd(first, second), JInt(2))
       /\ tour.P_match =
            JAdd(JAdd(JMul(tour.P_g1, tour.P_g2_afterWin),
                      JMul(JMul(tour.P_g1, JSub(JInt(1), tour.P_g2_afterWin)), tour.P_g3)),
                 JMul(JMul(JSub(JInt(1), tour.P_g1), tour.P_g2_afterLoss), tour.P_g3))

\* an analysis whose game 1 can go either way and whose seats differ in game 2
C16_Witness ==
  /\ tour.active /\ ~tour.isNull
  /\ IsFinite(tour.P_g1) /\ JGt(tour.P_g1, JInt(0)) /\ JGt(JInt(1), tour.P_g1)
  /\ tour.P_g2_afterWin # tour.P_g2_afterLoss
  /\ JGt(tour.P_g2_afterLoss, JInt(0))
  /\ JGt(tour.P_match, JInt(0)) /\ JGt(JInt(1), tour.P_match)

(***************************************************************************)
(* C17.  When every game of the match has the same win probability p in    *)
(* [0,1], the match win probability is p^2 * (3 - 2p), for the match       *)
(* formula of tournamentAnalysis and for pMatch of the earlier panel       *)
(* (81/125 = 0.648 at p = 3/5).                                            *)
(***************************************************************************)
C17_UniformMatch ==
  LET p == tm.P_g1
      uniform == /\ tm.P_g2_afterWin = p /\ tm.P_g3 = p
                 /\ (tm.op = "P_match" => tm.P_g2_afterLoss = p)
  IN (tm.active /\ tm.op \in {"P_match", "pMatch"} /\ uniform) =>
       tm.P_match = JMul(JMul(p, p), JSub(JInt(3), JMul(JInt(2), p)))

\* the match formula evaluated at p = 0.6 in every game
C17_Witness ==
  /\ tm.active /\ tm.op = "P_match"
  /\ tm.P_g1 = Fin(3, 5) /\ tm.P_g2_afterWin = Fin(3, 5)
  /\ tm.P_g2_afterLoss = Fin(3, 5) /\ tm.P_g3 = Fin(3, 5)
  /\ tm.P_match = Fin(81, 125)

(***************************************************************************)
(* C18.  For every round count R >= 0 and every match win probability the  *)
(* Swiss round distribution has R + 1 entries, for the win counts 0..R,    *)
(* and their probabilities sum to 1, in binomial and in stamina mode.      *)
(***************************************************************************)
\* sum of the probabilities of the first w entries of a distribution
RECURSIVE DistTotal(_, _)
DistTotal(dist, w) ==
  IF w = 0 THEN JInt(0) ELSE JAdd(DistTotal(dist, w - 1), dist[w].prob)

C18_SumsToOne ==
  (tm.active /\ tm.op = "roundsDist") =>
     /\ Len(tm.roundsDist) = tm.tournamentRounds + 1
     /\ \A w \in 0..tm.tournamentRounds : tm.roundsDist[w + 1].wins = w
     /\ DistTotal(tm.roundsDist, Len(tm.roundsDist)) = JInt(1)

(***************************************************************************)
(* C19.  The top cut probability is the sum of the distribution's          *)
(* probabilities over the win counts w with threshold <= w <= R: it is 0   *)
(* when the threshold exceeds R and the whole distribution's sum when the  *)
(* threshold is 0.                                                         *)
(***************************************************************************)
\* sum of the probabilities of the entries from position i to the last one
RECURSIVE TailTotal(_, _)
TailTotal(dist, i) ==
  IF i > Len(dist) THEN JInt(0) ELSE JAdd(dist[i].prob, TailTotal(dist, i + 1))

C19_TopCutIsTailSum ==
  (tm.active /\ tm.op = "roundsDist") =>
     /\ tm.topCutProb = TailTotal(tm.roundsDist, tm.topCutThreshold + 1)
     /\ (tm.topCutThreshold > tm.tournamentRounds => tm.topCutProb = JInt(0))
     /\ (tm.topCutThreshold = 0 =>
           tm.topCutProb = DistTotal(tm.roundsDist, Len(tm.roundsDist)))

\* a top cut that takes some records of the distribution and leaves others
C19_Witness ==
  /\ tm.active /\ tm.op = "roundsDist"
  /\ tm.topCutThreshold > 0 /\ tm.topCutThreshold < tm.tournamentRounds
  /\ JGt(tm.topCutProb, JInt(0)) /\ JGt(JInt(1), tm.topCutProb)

RECURSIVE UnadjustedEV(_, _)
UnadjustedEV(currentDraws, k) ==
  IF k = 0 THEN JInt(0)
  ELSE JAdd(UnadjustedEV(currentDraws, k - 1),
            JMul(calculateStepProb(currentDraws, conditions[k], TRUE).value,
                 conditions[k].weight))

C21_Timeline ==
  steps # <<>> =>
    /\ Len(steps) = 11
    /\ \A d \in 0..10 :
         /\ steps[d + 1]["step"] = NumberValue(d)
         /\ steps[d + 1]["draws"] = NumberValue(baseDraws + d)
         /\ steps[d + 1]["EV"] = toFixed(totalEV(baseDraws + d, Len(conditions)), 3)
         /\ (d >= 1 => steps[d + 1]["EV"] =
                         toFixed(UnadjustedEV(baseDraws + d, Len(conditions)), 3))

\* a timeline of a deck whose condition was named "step"
C21_Witness ==
  /\ steps # <<>>
  /\ \E c \in 1..Len(conditions) : conditions[c].name = "step"

(***************************************************************************)
(* C22.  checkThresholds: a category with drawn count c adds c to the sum  *)
(* of each role of its role list, a category with no role adds nothing,    *)
(* and the vector is accepted iff every thresholded role's sum lies in     *)
(* its inclusive [min, max].  For populations <<3, 1>> with roles "A" and  *)
(* "Brick", two draws and Brick in [0, 0] the enumerator returns <<2, 0>>  *)
(* alone.                                                                  *)
(***************************************************************************)
\* the categories that carry a role
Carriers(roleLists, role) == {i \in 1..Len(roleLists) : Includes(roleLists[i], role)}

\* the drawn counts of a set of categories, added up
RECURSIVE DrawnOf(_, _)
DrawnOf(v, cats) ==
  IF cats = {} THEN 0
  ELSE LET i == CHOOSE x \in cats : TRUE IN v[i] + DrawnOf(v, cats \ {i})

C22_ThresholdCheck ==
  gv.active =>
    /\ \A v \in Hands(gv.populationCounts, gv.totalDraws) :
         checkThresholds(v, gv.atomToRoles, gv.thresholds)
           <=> \A role \in DOMAIN gv.thresholds :
                 LET sum == DrawnOf(v, Carriers(gv.atomToRoles, role))
                 IN gv.thresholds[role].min <= sum /\ sum <= gv.thresholds[role].max
    /\ ((gv.populationCounts = <<3, 1>> /\ gv.totalDraws = 2
          /\ gv.atomToRoles = << <<"A">>, <<"Brick">> >>
          /\ gv.thresholds = [role \in {"Brick"} |-> [min |-> 0, max |-> 0]])
         => gv.vectors = << <<2, 0>> >>)

\* a category with both thresholded roles beside a category with no role: the
\* one card drawn from the first counts for both roles
C22_Witness ==
  /\ gv.active
  /\ gv.populationCounts = <<2, 2>> /\ gv.totalDraws = 2
  /\ gv.atomToRoles = << <<"Starter", "Brick">>, <<>> >>
  /\ DOMAIN gv.thresholds = {"Starter", "Brick"}
  /\ gv.thresholds["Starter"] = [min |-> 1, max |-> 1]
  /\ gv.thresholds["Brick"] = [min |-> 1, max |-> 1]
  /\ gv.vectors = << <<1, 1>> >>

\* the enumerator call of the documentation
C22_Example ==
  /\ gv.active /\ gv.populationCounts = <<3, 1>>
  /\ gv.atomToRoles = << <<"A">>, <<"Brick">> >> /\ gv.vectors = << <<2, 0>> >>

(***************************************************************************)
(* C23.  With the sideboard variance above 0, a condition's effective      *)
(* weight in the games after game 1 is weight * max(0, keepFactor), where  *)
(* keepFactor is 0.90 if weight / maxWeight >= 0.8 and                     *)
(* 1 - 0.30 * (1 - weight / maxWeight) otherwise, maxWeight being the      *)
(* largest weight among the conditions; a condition that carries the       *)
(* largest weight keeps 0.90 of it.                                        *)
(***************************************************************************)
\* the largest weight among the first k conditions (k >= 1)
RECURSIVE LargestWeight(_)
LargestWeight(k) ==
  IF k = 1 THEN conditions[1].weight
  ELSE JMax(conditions[k].weight, LargestWeight(k - 1))

StatedKeepFactor(weight) ==
  LET ratio == JDiv(weight, LargestWeight(Len(conditions)))
  IN IF JLeq(Fin(8, 10), ratio) THEN Fin(9, 10)
     ELSE JSub(JInt(1), JMul(Fin(3, 10), JSub(JInt(1), ratio)))

C23_EffectiveWeight ==
  (tour.active /\ ~tour.isNull /\ JGt(tcfg.sideboardVariance, JInt(0))) =>
    \A c \in 1..Len(conditions) :
      /\ tour.g23Weights[c]
           = JMul(conditions[c].weight, JMax(JInt(0), StatedKeepFactor(conditions[c].weight)))
      /\ (conditions[c].weight = LargestWeight(Len(conditions))
            => tour.g23Weights[c] = JMul(conditions[c].weight, Fin(9, 10)))

\* an analysis of conditions whose largest weight is a positive weight below 0.8
C23_Witness ==
  /\ tour.active /\ ~tour.isNull /\ JGt(tcfg.sideboardVariance, JInt(0))
  /\ JGt(LargestWeight(Len(conditions)), JInt(0))
  /\ JGt(Fin(8, 10), LargestWeight(Len(conditions)))

(***************************************************************************)
(* C24.  A single-game win probability is the weighted mean                *)
(* sum(p_i * w_i) / sum(w_i) of the conditions' probabilities for the seat *)
(* of the game, with the effective weights; it is 0 when the total         *)
(* effective weight is not positive; and with non-negative weights of      *)
(* positive total it lies between the smallest and the largest condition   *)
(* probability.                                                            *)
(***************************************************************************)
\* the probability of condition i for a seat
SeatProb(condData, goingFirst, i) ==
  IF goingFirst THEN condData[i].probFirst ELSE condData[i].probSecond

\* sum over the first k conditions of p_i * w_i
RECURSIVE WeightedSum(_, _, _, _)
WeightedSum(condData, w, goingFirst, k) ==
  IF k = 0 THEN JInt(0)
  ELSE JAdd(WeightedSum(condData, w, goingFirst, k - 1),
            JMul(SeatProb(condData, goingFirst, k), w[k]))

RECURSIVE TotalWeight(_, _)
TotalWeight(w, k) == IF k = 0 THEN JInt(0) ELSE JAdd(TotalWeight(w, k - 1), w[k])

\* the stated value of a game: the weighted mean, or 0
WeightedMean(condData, w, goingFirst) ==
  IF JGt(TotalWeight(w, Len(w)), JInt(0))
  THEN JDiv(WeightedSum(condData, w, goingFirst, Len(w)), TotalWeight(w, Len(w)))
  ELSE JInt(0)

\* p lies between the smallest and the largest probability of the seat
WithinProbs(p, condData, goingFirst) ==
  /\ \E i \in 1..Len(condData) : JLeq(SeatProb(condData, goingFirst, i), p)
  /\ \E i \in 1..Len(condData) : JLeq(p, SeatProb(condData, goingFirst, i))

\* the weights of game 1: the conditions' weights
g1Weights == [i \in 1..Len(conditions) |-> conditions[i].weight]

NonNegativeOfPositiveTotal(w) ==
  /\ \A i \in 1..Len(w) : JLeq(JInt(0), w[i])
  /\ JGt(TotalWeight(w, Len(w)), JInt(0))

C24_WeightedMean ==
  (tour.active /\ ~tour.isNull) =>
    /\ tour.P_g1 = WeightedMean(tour.g1ConditionData, g1Weights, tcfg.g1GoingFirst)
    /\ tour.P_g2_afterWin = WeightedMean(tour.g23ConditionData, tour.g23Weights, FALSE)
    /\ tour.P_g2_afterLoss = WeightedMean(tour.g23ConditionData, tour.g23Weights, TRUE)
    /\ (NonNegativeOfPositiveTotal(g1Weights) =>
          WithinProbs(tour.P_g1, tour.g1ConditionData, tcfg.g1GoingFirst))
    /\ (NonNegativeOfPositiveTotal(tour.g23Weights) =>
          /\ WithinProbs(tour.P_g2_afterWin, tour.g23ConditionData, FALSE)
          /\ WithinProbs(tour.P_g2_afterLoss, tour.g23ConditionData, TRUE))

(***************************************************************************)
(* C25.  With the stamina factor on, the round distribution is the dynamic *)
(* program dp[0][0] = 1, dp[r][w] = dp[r-1][w-1] * p_r                     *)
(* + dp[r-1][w] * (1 - p_r) for r = 1..R, where p_r = max(0, P_match -     *)
(* penalty(r)) and the penalty is 0.03 on round R, 0.02 on round R - 1 and *)
(* 0 on every earlier round; the probability reported for w wins is        *)
(* dp[R][w].                                                               *)
(***************************************************************************)
StatedPenalty(r, R) ==
  IF r = R THEN Fin(3, 100) ELSE IF r = R - 1 THEN Fin(2, 100) ELSE JInt(0)

StatedRoundProb(r, R, matchProb) == JMax(JInt(0), JSub(matchProb, StatedPenalty(r, R)))

RECURSIVE StatedDp(_, _, _, _)
StatedDp(r, w, R, matchProb) ==
  IF r = 0 THEN (IF w = 0 THEN JInt(1) ELSE JInt(0))
  ELSE IF w > r THEN JInt(0)
  ELSE JAdd(IF w > 0
            THEN JMul(StatedDp(r - 1, w - 1, R, matchProb), StatedRoundProb(r, R, matchProb))
            ELSE JInt(0),
            JMul(StatedDp(r - 1, w, R, matchProb),
                 JSub(JInt(1), StatedRoundProb(r, R, matchProb))))

C25_StaminaDistribution ==
  (tm.active /\ tm.op = "roundsDist" /\ tm.staminaFactor) =>
    /\ Len(tm.roundsDist) = tm.tournamentRounds + 1
    /\ \A w \in 0..tm.tournamentRounds :
         /\ tm.roundsDist[w + 1].wins = w
         /\ tm.roundsDist[w + 1].prob = StatedDp(tm.tournamentRounds, w, tm.tournamentRounds,
                                                 tm.P_match)

\* three rounds, of which the first is played fresh and the last two tired
C25_Witness ==
  /\ tm.active /\ tm.op = "roundsDist" /\ tm.staminaFactor
  /\ tm.tournamentRounds = 3
  /\ tm.P_match = Fin(3, 5)
  /\ tm.roundsDist[4].prob = JMul(Fin(3, 5), JMul(Fin(58, 100), Fin(57, 100)))

(***************************************************************************)
(* C26.  The brick alert is raised iff the relative velocity drop          *)
(* (g1Velocity - g23Velocity) / g1Velocity is strictly greater than 0.02,  *)
(* and its severity is critical iff the drop is strictly greater than      *)
(* 0.05; g23Velocity is the mean of P_g2_afterWin, P_g2_afterLoss and      *)
(* P_g3, and when g1Velocity is 0 the drop is 0 and no alert is raised.    *)
(* C26_AlertOnRelativeDrop states it as written; C26_BrickAlert takes the  *)
(* drop as 0 whenever g1Velocity is not positive.                          *)
(***************************************************************************)
MeanOfLaterGames ==
  JDiv(JAdd(JAdd(tour.P_g2_afterWin, tour.P_g2_afterLoss), tour.P_g3), JInt(3))

RelativeDrop == JDiv(JSub(tour.P_g1, MeanOfLaterGames), tour.P_g1)

AlertFollows(drop) ==
  /\ tour.brickAlert <=> JGt(drop, Fin(2, 100))
  /\ (tour.brickAlertSeverity = "critical") <=> JGt(drop, Fin(5, 100))
  /\ (tour.brickAlertSeverity = "critical" => tour.brickAlert)

C26_AlertOnRelativeDrop ==
  (tour.active /\ ~tour.isNull) =>
    AlertFollows(IF tour.P_g1 = JInt(0) THEN JInt(0) ELSE RelativeDrop)

C26_BrickAlert ==
  (tour.active /\ ~tour.isNull) =>
    /\ tour.velocityDrop = (IF JGt(tour.P_g1, JInt(0)) THEN RelativeDrop ELSE JInt(0))
    /\ AlertFollows(tour.velocityDrop)

\* a warning that is not critical, from a drop between 0.02 and 0.05
C26_Witness ==
  /\ tour.active /\ ~tour.isNull
  /\ tour.brickAlert /\ tour.brickAlertSeverity = "warning"

(***************************************************************************)
(* C27.  After any sequence of edits every recorded side-out belongs to an *)
(* existing atom and is at most that atom's current count, and (for a main *)
(* deck whose atoms fit its size) the post-sideboard categories fit        *)
(* postSideDeckSize = deckSize - totalSidedOut + totalSidedIn, so that     *)
(* with a non-negative filler they sum to exactly that size.               *)
(***************************************************************************)
\* an amount of 0 is no side-out: sideOuts[id] || 0 reads a missing entry as 0
SideOutsWithinAtoms ==
  \A e \in sideOuts :
    e[2] > 0 => \E i \in 1..Len(atoms) : atoms[i].id = e[1] /\ e[2] <= atoms[i].count

PostSideCount == SumSeq([i \in 1..Len(postSideAtoms) |-> postSideAtoms[i].count])

C27_SideOutsFit ==
  /\ SideOutsWithinAtoms
  /\ (totalAtomCount <= deckSize => PostSideCount <= postSideDeckSize)

(***************************************************************************)
(* C28.  For every reachable configuration with at least one condition and *)
(* weights >= 0, whatever the deck, the mulligan and the stamina factor,   *)
(* P_g1, P_g2_afterWin, P_g2_afterLoss, P_g3 and P_match, every            *)
(* probability of the round distribution and the top-cut probability lie   *)
(* in [0, 1].  The round distribution is taken for tournaments of up to   *)
(* one round, which keeps the exact fractions of P_match small.            *)
(***************************************************************************)
InUnitInterval(x) == JLeq(JInt(0), x) /\ JLeq(x, JInt(1))

C28_ProbabilitiesInUnitInterval ==
  (tour.active /\ ~tour.isNull
     /\ \A c \in 1..Len(conditions) : JLeq(JInt(0), conditions[c].weight)) =>
    /\ InUnitInterval(tour.P_g1)
    /\ InUnitInterval(tour.P_g2_afterWin)
    /\ InUnitInterval(tour.P_g2_afterLoss)
    /\ InUnitInterval(tour.P_g3)
    /\ InUnitInterval(tour.P_match)
    /\ \A staminaFactor \in BOOLEAN, tournamentRounds \in 0..1 :
         LET dist == roundsDist(tour.P_match, staminaFactor, tournamentRounds)
         IN /\ \A w \in 1..Len(dist) : InUnitInterval(dist[w].prob)
            /\ \A topCutThreshold \in 0..tournamentRounds :
                 InUnitInterval(topCutProb(dist, topCutThreshold, tournamentRounds))

(***************************************************************************)
(* C29.  When the post-sideboard composition is not in effect and the      *)
(* mulligan is disabled: with brick sensitivity off, the probabilities of  *)
(* games 2 and 3 that calcProbForDeck computes equal the game 1            *)
(* probabilities of calculateStepProb, for every condition and both seats; *)
(* with brick sensitivity on they are never larger.                        *)
(***************************************************************************)
C29_SameDeckSameProbability ==
  (tour.active /\ ~tour.isNull /\ ~usePostSide /\ ~mulligan.enabled) =>
    \A c \in 1..Len(conditions) :
      IF tcfg.brickSensitivity
      THEN /\ JLeq(tour.g23ConditionData[c].probFirst, tour.g1ConditionData[c].probFirst)
           /\ JLeq(tour.g23ConditionData[c].probSecond, tour.g1ConditionData[c].probSecond)
      ELSE /\ tour.g23ConditionData[c].probFirst = tour.g1ConditionData[c].probFirst
           /\ tour.g23ConditionData[c].probSecond = tour.g1ConditionData[c].probSecond

\* the main deck in all three games, no brick cap: a condition met in part of
\* the hands has the same probability in game 1 and in games 2 and 3
C29_Witness ==
  /\ tour.active /\ ~tour.isNull /\ ~usePostSide /\ ~mulligan.enabled
  /\ ~tcfg.brickSensitivity
  /\ JGt(tour.g23ConditionData[1].probSecond, JInt(0))
  /\ JGt(JInt(1), tour.g23ConditionData[1].probSecond)
  /\ tour.g23ConditionData[1].probSecond = tour.g1ConditionData[1].probSecond

(***************************************************************************)
(* C30.  On the sign-in page, while an authentication call started by a    *)
(* submit is pending a further submit starts no second call; when the      *)
(* pending call settles, by success or by failure, the loading flag        *)
(* returns to false; and the reset-sent flag becomes true only when a      *)
(* password-reset call has succeeded.                                      *)
(***************************************************************************)
C30_OneCallAtATime ==
  [][/\ (authPage.pending # <<>> => Len(authPage'.pending) <= Len(authPage.pending))
     /\ Len(authPage'.pending) <= 1
     /\ (Len(authPage'.pending) < Len(authPage.pending) => ~authPage'.loading)
     /\ (authPage'.pending # <<>> => authPage'.loading)
     /\ (~authPage.resetSent /\ authPage'.resetSent
           => /\ authPage.pending = <<"reset">>
              /\ authPage'.pending = <<>>
              /\ authPage'.error = authPage.error)]_vars

\* a submit that arrived while a call was pending and started nothing
C30_Witness ==
  /\ authPage.submits = 2 /\ authPage.held = 1
  /\ authPage.pending # <<>>
  /\ authPage.loading

\* a reset mail was sent
C30_ResetSent == authPage.resetSent /\ ~authPage.loading /\ authPage.pending = <<>>
====
